---------------------------- MODULE Spec2Model ----------------------------
(***************************************************************************)
(* ClauseWise: clause segmentation (DocumentProcessor.split_into_clauses),  *)
(* the rule-based classifiers (classify_clause_type, the local document    *)
(* classifiers of HuggingFaceClient and GraniteClient), the local          *)
(* simplifiers, the client operations with their remote call and local     *)
(* fallback, and the Streamlit application (app.py).                       *)
(* Strings are TLA+ strings; every Python string primitive the code uses   *)
(* (split, strip, upper, lower, startswith, isupper, re.match, re.split,   *)
(* re.sub, join, `in`) is an operator below, computed character by         *)
(* character.                                                              *)
(***************************************************************************)
EXTENDS Integers, Sequences, FiniteSets, TLC

VARIABLES
    \* ---- split_into_clauses: arguments, locals, return value
    text,              \* argument text
    max_length,        \* argument max_length
    self,              \* the DocumentProcessor instance the call runs on
    pc,                \* "idle" | "scan" | "done"
    lines,             \* text.split('\n')
    idx,               \* index (1-based) of the next line of the for loop
    clauses,           \* local list clauses
    current_clause,    \* local string current_clause
    filtered_clauses,  \* the returned list
    \* ---- history of the scan (written, never read, by the code's steps)
    clause_tags,       \* per closed clause: per character, the digit of the source line ("0": inserted)
    current_tag,       \* the same for current_clause
    kept,              \* indices into clauses of the clauses that were returned
    consumed,          \* the non-blank trimmed lines consumed so far, concatenated
    event,             \* what the length check of the last iteration did
    nsplits,           \* number of mid-point splits of this call
    calls,             \* number of calls started
    prev_result,       \* the return value of the previous call
    \* ---- classifiers: argument and results
    cls_text,          \* the clause / document text given to the classifiers
    cls_pc,            \* "input" | "classified"
    clause_type,       \* classify_clause_type(cls_text)
    hf_result,         \* HuggingFaceClient._local_document_classification(cls_text)
    granite_result,    \* GraniteClient._enhanced_local_classification(cls_text)
    \* ---- local simplification: argument and results
    simp_text,         \* the text given to the simplifiers
    simp_pc,           \* "input" | "hf" | "granite" | "watson"
    hf_simplified,     \* HuggingFaceClient._local_clause_simplification(simp_text)
    granite_simplified,\* GraniteClient._enhanced_local_simplification(simp_text)
    watson_simplified, \* WatsonClient._create_simplified_text(simp_text, entities, keywords)
    \* ---- client operations with a remote service behind them
    api_key,           \* the API key of the environment ("": none)
    op_text,           \* the text given to the operation
    op_pc,             \* "ready" | "returned"
    op_called,         \* << client, operation >> that was called
    op_response,       \* what the remote service did when the operation called it
    op_result,         \* what the operation returned, or that it raised
    \* ---- the Streamlit application
    uploaded_file,     \* the file in the uploader widget ("none": empty)
    session_state,     \* st.session_state
    page,              \* what the last run of the script did and rendered
    returned,          \* per document text, what the calls of the workflows return
    \* ---- local analyses: argument and results
    ana_text,          \* the clause / document text given to the local analyses
    ana_pc,            \* "input", or the analysis that was called
    ana_key_info,      \* extract_clause_key_info(ana_text)
    ana_summary,       \* HuggingFaceClient._local_summarization(ana_text)
    ana_entities,      \* GraniteClient._enhanced_local_entity_extraction(ana_text)
    \* ---- concurrent invocations on the cached client
    invocation,        \* per task: the operation it invokes and the document it was given
    task_pc,           \* per task: the position of its invocation
    frame,             \* per call frame: the locals of the invocation that runs in it
    trace,             \* per task: the requests and fallbacks of its invocation so far (history)
    \* ---- DocumentProcessor.process_document: argument and result
    ing_file,          \* the uploaded file given to process_document
    ing_pc,            \* "idle", "ready" or "returned"
    ing_result         \* what process_document returned, or that it raised

seg_vars == << text, max_length, self, pc, lines, idx, clauses, current_clause,
               filtered_clauses, clause_tags, current_tag, kept, consumed, event,
               nsplits, calls, prev_result >>
cls_vars == << cls_text, cls_pc, clause_type, hf_result, granite_result >>
simp_vars == << simp_text, simp_pc, hf_simplified, granite_simplified, watson_simplified >>
op_vars == << api_key, op_text, op_pc, op_called, op_response, op_result >>
app_vars == << uploaded_file, session_state, page, returned >>
ana_vars == << ana_text, ana_pc, ana_key_info, ana_summary, ana_entities >>
task_vars == << invocation, task_pc, frame, trace >>
ing_vars == << ing_file, ing_pc, ing_result >>
other_than_seg == << cls_vars, simp_vars, op_vars, app_vars, ana_vars, task_vars, ing_vars >>
other_than_cls == << seg_vars, simp_vars, op_vars, app_vars, ana_vars, task_vars, ing_vars >>
other_than_simp == << seg_vars, cls_vars, op_vars, app_vars, ana_vars, task_vars, ing_vars >>
other_than_op == << seg_vars, cls_vars, simp_vars, app_vars, ana_vars, task_vars, ing_vars >>
other_than_app == << seg_vars, cls_vars, simp_vars, op_vars, ana_vars, task_vars, ing_vars >>
other_than_ana == << seg_vars, cls_vars, simp_vars, op_vars, app_vars, task_vars, ing_vars >>
other_than_task == << seg_vars, cls_vars, simp_vars, op_vars, app_vars, ana_vars, ing_vars >>
other_than_ing == << seg_vars, cls_vars, simp_vars, op_vars, app_vars, ana_vars, task_vars >>
vars == << seg_vars, cls_vars, simp_vars, op_vars, app_vars, ana_vars, task_vars, ing_vars >>

(***************************************************************************)
(* Python string primitives                                                *)
(***************************************************************************)
Char(s, i) == SubSeq(s, i, i)

LowerChars == "abcdefghijklmnopqrstuvwxyz"
UpperChars == "ABCDEFGHIJKLMNOPQRSTUVWXYZ"
DigitChars == "0123456789"
LowerSet == { Char(LowerChars, i) : i \in 1..Len(LowerChars) }
UpperSet == { Char(UpperChars, i) : i \in 1..Len(UpperChars) }
DigitSet == { Char(DigitChars, i) : i \in 1..Len(DigitChars) }
\* the characters str.strip() removes and \s matches
WhitespaceChars == { " ", "\t", "\n", "\r", "\f" }
\* the character class [.!?] of the sentence split
Terminators == { ".", "!", "?" }

\* the case mappings of the ASCII letters
UpperOf ==
    "a" :> "A" @@ "b" :> "B" @@ "c" :> "C" @@ "d" :> "D" @@ "e" :> "E" @@ "f" :> "F"
    @@ "g" :> "G" @@ "h" :> "H" @@ "i" :> "I" @@ "j" :> "J" @@ "k" :> "K" @@ "l" :> "L"
    @@ "m" :> "M" @@ "n" :> "N" @@ "o" :> "O" @@ "p" :> "P" @@ "q" :> "Q" @@ "r" :> "R"
    @@ "s" :> "S" @@ "t" :> "T" @@ "u" :> "U" @@ "v" :> "V" @@ "w" :> "W" @@ "x" :> "X"
    @@ "y" :> "Y" @@ "z" :> "Z"
LowerOf ==
    "A" :> "a" @@ "B" :> "b" @@ "C" :> "c" @@ "D" :> "d" @@ "E" :> "e" @@ "F" :> "f"
    @@ "G" :> "g" @@ "H" :> "h" @@ "I" :> "i" @@ "J" :> "j" @@ "K" :> "k" @@ "L" :> "l"
    @@ "M" :> "m" @@ "N" :> "n" @@ "O" :> "o" @@ "P" :> "p" @@ "Q" :> "q" @@ "R" :> "r"
    @@ "S" :> "s" @@ "T" :> "t" @@ "U" :> "u" @@ "V" :> "v" @@ "W" :> "w" @@ "X" :> "x"
    @@ "Y" :> "y" @@ "Z" :> "z"
ToUpperChar(c) == IF c \in LowerSet THEN UpperOf[c] ELSE c
ToLowerChar(c) == IF c \in UpperSet THEN LowerOf[c] ELSE c

RECURSIVE MapRange(_, _, _, _)
\* the characters lo..hi of s, each mapped to upper (or lower) case
MapRange(s, lo, hi, upper) ==
    IF lo > hi THEN ""
    ELSE IF lo = hi
         THEN (IF upper THEN ToUpperChar(Char(s, lo)) ELSE ToLowerChar(Char(s, lo)))
         ELSE MapRange(s, lo, (lo + hi) \div 2, upper)
              \o MapRange(s, (lo + hi) \div 2 + 1, hi, upper)
\* str.upper(), str.lower()
Upper(s) == MapRange(s, 1, Len(s), TRUE)
Lower(s) == MapRange(s, 1, Len(s), FALSE)

\* str.startswith(prefix)
StartsWith(s, prefix) ==
    Len(prefix) <= Len(s) /\ SubSeq(s, 1, Len(prefix)) = prefix

\* `sub in s`
Contains(s, sub) ==
    \E i \in 1..(Len(s) - Len(sub) + 1) : SubSeq(s, i, i + Len(sub) - 1) = sub

\* str.isupper(): at least one cased character and no lower-case one
IsUpper(s) ==
    /\ \E i \in 1..Len(s) : Char(s, i) \in UpperSet
    /\ \A i \in 1..Len(s) : Char(s, i) \notin LowerSet

\* index of the first / last character that is not whitespace (Len+1 / 0: none)
StripLo(s) ==
    IF \A i \in 1..Len(s) : Char(s, i) \in WhitespaceChars THEN Len(s) + 1
    ELSE CHOOSE i \in 1..Len(s) :
            /\ Char(s, i) \notin WhitespaceChars
            /\ \A j \in 1..(i - 1) : Char(s, j) \in WhitespaceChars
StripHi(s) ==
    IF \A i \in 1..Len(s) : Char(s, i) \in WhitespaceChars THEN 0
    ELSE CHOOSE i \in 1..Len(s) :
            /\ Char(s, i) \notin WhitespaceChars
            /\ \A j \in (i + 1)..Len(s) : Char(s, j) \in WhitespaceChars
\* the cut s.strip() makes, applied to a string t that runs parallel to s
StripOf(s, t) == SubSeq(t, StripLo(s), StripHi(s))
\* an unstripped string: the slip a missing .strip() would be
StripNothing(s) == s
\* str.strip()
Strip(s) == StripOf(s, s)

\* the elements of a set of numbers in increasing order
Sorted(S) ==
    [ k \in 1..Cardinality(S) |-> CHOOSE x \in S : Cardinality({ y \in S : y < x }) = k - 1 ]

\* the pieces of t between the separators that begin at starts[k] and end at ends[k]
PiecesBetween(t, starts, ends) ==
    [ k \in 1..(Len(starts) + 1) |->
        SubSeq(t, IF k = 1 THEN 1 ELSE ends[k - 1] + 1,
                  IF k = Len(starts) + 1 THEN Len(t) ELSE starts[k] - 1) ]

\* str.split(sep) for a one-character separator
Split(s, sep) ==
    LET at == Sorted({ i \in 1..Len(s) : Char(s, i) = sep })
    IN  PiecesBetween(s, at, at)

\* re.split(r'[.!?]+', s): the cuts are the maximal runs of terminators;
\* applied to a string t that runs parallel to s
ReSplitOf(s, t) ==
    LET starts == { i \in 1..Len(s) : /\ Char(s, i) \in Terminators
                                      /\ (i = 1 \/ Char(s, i - 1) \notin Terminators) }
        ends   == { i \in 1..Len(s) : /\ Char(s, i) \in Terminators
                                      /\ (i = Len(s) \/ Char(s, i + 1) \notin Terminators) }
    IN  PiecesBetween(t, Sorted(starts), Sorted(ends))
ReSplit(s) == ReSplitOf(s, s)

RECURSIVE Join(_, _)
\* sep.join(parts)
Join(parts, sep) ==
    IF Len(parts) = 0 THEN ""
    ELSE IF Len(parts) = 1 THEN parts[1]
    ELSE parts[1] \o sep \o Join(Tail(parts), sep)

RECURSIVE CollapseRange(_, _, _)
\* the characters lo..hi of s with every whitespace run replaced by one space
CollapseRange(s, lo, hi) ==
    IF lo > hi THEN ""
    ELSE IF lo = hi
         THEN IF Char(s, lo) \in WhitespaceChars
              THEN (IF lo > 1 /\ Char(s, lo - 1) \in WhitespaceChars THEN "" ELSE " ")
              ELSE Char(s, lo)
         ELSE CollapseRange(s, lo, (lo + hi) \div 2) \o CollapseRange(s, (lo + hi) \div 2 + 1, hi)
\* re.sub(r'\s+', ' ', s)
CollapseWhitespace(s) == CollapseRange(s, 1, Len(s))

RECURSIVE Repeat(_, _)
\* c * n
Repeat(c, n) ==
    IF n <= 0 THEN ""
    ELSE IF n = 1 THEN c
    ELSE Repeat(c, n \div 2) \o Repeat(c, n - n \div 2)

(***************************************************************************)
(* Bounds of the model and the inputs drawn from them                       *)
(***************************************************************************)
\* a document is a concatenation of at most MaxPieces pieces
MaxPieces == 3
\* the small max_length argument that makes the length check fire
SmallMaxLength == 30
\* calls of split_into_clauses on the same input
MaxCalls == 2
\* the default of the parameter max_length
DefaultMaxLength == 1000
\* "Minimum length for a meaningful clause"
MinClauseLength == 20
\* the length below which an upper-case line is a heading
HeadingLength == 50

Pieces ==
    { "\n",
      "                  ",
      "1. ",
      "the buyer shall pay the fee. ",
      "RECITALS",
      "whereas the parties agree ",
      "goods and services rendered" }

RECURSIVE TextsOfLen(_)
TextsOfLen(n) ==
    IF n = 0 THEN { "" }
    ELSE { t \o p : t \in TextsOfLen(n - 1), p \in Pieces }
Texts == UNION { TextsOfLen(n) : n \in 0..MaxPieces }
MaxLengths == { SmallMaxLength, DefaultMaxLength }
\* DocumentProcessor instances
Processors == { "processor_a", "processor_b" }

(***************************************************************************)
(* DocumentProcessor.split_into_clauses                                    *)
(***************************************************************************)
clause_markers ==
    << "WHEREAS", "NOW, THEREFORE", "IN WITNESS WHEREOF", "SECTION",
       "ARTICLE", "CLAUSE", "PROVIDED", "PROVIDED THAT", "FURTHER",
       "ADDITIONALLY", "MOREOVER", "FURTHERMORE", "IN ADDITION",
       "THEREFORE", "HEREBY", "AGREES", "AGREED", "PARTIES",
       "DEFINITIONS", "SCOPE", "TERM", "TERMINATION", "LIABILITY",
       "INDEMNIFICATION", "CONFIDENTIALITY", "NON-DISCLOSURE",
       "PAYMENT", "COMPENSATION", "BENEFITS", "DUTIES", "OBLIGATIONS",
       "REPRESENTATIONS", "WARRANTIES", "COVENANTS", "CONDITIONS",
       "DEFAULT", "BREACH", "REMEDIES", "DISPUTE", "ARBITRATION",
       "GOVERNING LAW", "JURISDICTION", "AMENDMENT", "WAIVER",
       "SEVERABILITY", "ENTIRE AGREEMENT", "FORCE MAJEURE",
       "NOTICES", "ASSIGNMENT", "SUCCESSORS", "COUNTERPARTS" >>

\* line.upper().startswith(marker), comparing the upper-cased characters in place
UpperStartsWith(line, marker) ==
    /\ Len(marker) <= Len(line)
    /\ \A i \in 1..Len(marker) : ToUpperChar(Char(line, i)) = Char(marker, i)
\* any(line.upper().startswith(marker) for marker in clause_markers)
is_clause_start(line) ==
    \E m \in 1..Len(clause_markers) : UpperStartsWith(line, clause_markers[m])

RECURSIVE DigitsEnd(_, _)
\* the index after the run of digits that starts at i
DigitsEnd(s, i) ==
    IF i <= Len(s) /\ Char(s, i) \in DigitSet THEN DigitsEnd(s, i + 1) ELSE i
\* any(re.match(pattern, line) for pattern in numbered_patterns)
is_numbered_start(line) ==
    \/ DigitsEnd(line, 1) > 1 /\ Char(line, DigitsEnd(line, 1)) = "."
    \/ Len(line) >= 2 /\ Char(line, 1) \in LowerSet /\ Char(line, 2) = ")"
    \/ Len(line) >= 2 /\ Char(line, 1) \in UpperSet /\ Char(line, 2) = "."
    \/ Len(line) >= 3 /\ Char(line, 1) = "(" /\ Char(line, 2) \in LowerSet /\ Char(line, 3) = ")"
    \/ Len(line) >= 3 /\ Char(line, 1) = "(" /\ Char(line, 2) \in UpperSet /\ Char(line, 3) = ")"

\* len(line) < 50 and line.isupper()
is_paragraph_break(line) == Len(line) < HeadingLength /\ IsUpper(line)

\* the line of this iteration, after line = line.strip()
CurrentLine == Strip(lines[idx])
\* the tag of its characters: the digit of its index
LineTag(line) == Repeat(Char(DigitChars, idx + 1), Len(line))

\* a test that knows the section markers only
ClosesBufferOnMarker(line) == is_clause_start(line) /\ current_clause # ""
\* the test of the if: a boundary line closes a non-empty buffer
ClosesBuffer(line) ==
    /\ is_clause_start(line) \/ is_numbered_start(line) \/ is_paragraph_break(line)
    /\ current_clause # ""

\* current_clause += " " + line if current_clause else line
AppendedBuffer(line) ==
    IF current_clause # "" THEN current_clause \o " " \o line ELSE line
AppendedTag(line) ==
    IF current_clause # "" THEN current_tag \o "0" \o LineTag(line) ELSE LineTag(line)

\* a midpoint rounded up
MidPointRoundedUp(sentences) == (Len(sentences) + 1) \div 2
\* mid_point = len(sentences) // 2
MidPoint(sentences) == Len(sentences) \div 2
\* first_part = '. '.join(sentences[:mid_point]) + '.'
FirstPart(sentences) == Join(SubSeq(sentences, 1, MidPoint(sentences)), ". ") \o "."
\* a second part that starts one sentence late
SecondPartSkipping(sentences) ==
    Join(SubSeq(sentences, MidPoint(sentences) + 2, Len(sentences)), ". ")
\* second_part = '. '.join(sentences[mid_point:])
SecondPart(sentences) ==
    Join(SubSeq(sentences, MidPoint(sentences) + 1, Len(sentences)), ". ")
FirstPartTag(tsent) == Join(SubSeq(tsent, 1, MidPoint(tsent)), "00") \o "0"
SecondPartTag(tsent) == Join(SubSeq(tsent, MidPoint(tsent) + 1, Len(tsent)), "00")

\* a split that closes the second part and goes on with the first
MidSplitSwapped(sentences, tsent) ==
    [ closed     |-> Strip(SecondPart(sentences)),
      closed_tag |-> StripOf(SecondPart(sentences), SecondPartTag(tsent)),
      rest       |-> FirstPart(sentences),
      rest_tag   |-> FirstPartTag(tsent) ]
\* clauses.append(first_part.strip()); current_clause = second_part
MidSplit(sentences, tsent) ==
    [ closed     |-> Strip(FirstPart(sentences)),
      closed_tag |-> StripOf(FirstPart(sentences), FirstPartTag(tsent)),
      rest       |-> SecondPart(sentences),
      rest_tag   |-> SecondPartTag(tsent) ]

\* a whole-buffer close that forgets to reset the buffer
BufferKeptAfterWholeClose(buffer) == buffer
\* current_clause = "" after the whole buffer was closed
BufferAfterWholeClose(buffer) == ""

\* "If clause is getting too long, split it": the state after the length check,
\* from the closed clauses cl (tags ct) and the buffer (tag bt) after the if/else
LengthCheck(cl, ct, buffer, bt) ==
    IF Len(buffer) > max_length
    THEN IF Len(ReSplit(buffer)) > 1
         THEN LET m == MidSplit(ReSplit(buffer), ReSplitOf(buffer, bt))
              IN  [ clauses |-> Append(cl, m.closed),
                    tags    |-> Append(ct, m.closed_tag),
                    current |-> m.rest,
                    tag     |-> m.rest_tag,
                    event   |-> "mid" ]
         ELSE [ clauses |-> Append(cl, Strip(buffer)),
                tags    |-> Append(ct, StripOf(buffer, bt)),
                current |-> BufferAfterWholeClose(buffer),
                tag     |-> "",
                event   |-> "whole" ]
    ELSE [ clauses |-> cl, tags |-> ct, current |-> buffer, tag |-> bt, event |-> "none" ]

\* the closed clauses and the buffer after the if/else on a non-blank line
ClausesAfterLine(line) ==
    IF ClosesBuffer(line) THEN Append(clauses, Strip(current_clause)) ELSE clauses
BufferAfterLine(line) ==
    IF ClosesBuffer(line) THEN line ELSE AppendedBuffer(line)
TagsAfterLine(line) ==
    IF ClosesBuffer(line) THEN Append(clause_tags, StripOf(current_clause, current_tag))
    ELSE clause_tags
TagAfterLine(line) ==
    IF ClosesBuffer(line) THEN LineTag(line) ELSE AppendedTag(line)

\* the body of the for loop on a non-blank line: the if/else, then the length check
ProcessLine(line) ==
    LET r == LengthCheck(ClausesAfterLine(line), TagsAfterLine(line),
                         BufferAfterLine(line), TagAfterLine(line))
    IN  /\ clauses' = r.clauses
        /\ clause_tags' = r.tags
        /\ current_clause' = r.current
        /\ current_tag' = r.tag
        /\ event' = r.event
        /\ nsplits' = IF r.event = "mid" THEN nsplits + 1 ELSE nsplits
        /\ consumed' = consumed \o line
        /\ idx' = idx + 1

\* if len(clause) > 20
KeepsClause(clause) == Len(clause) > MinClauseLength

RECURSIVE FilterFrom(_, _)
\* the loop "Filter out very short clauses and clean up", with the indices kept
FilterFrom(cl, i) ==
    IF i > Len(cl) THEN [ out |-> << >>, kept |-> << >> ]
    ELSE LET clause == Strip(cl[i])
             rest   == FilterFrom(cl, i + 1)
         IN  IF KeepsClause(clause)
             THEN [ out  |-> << CollapseWhitespace(clause) >> \o rest.out,
                    kept |-> << i >> \o rest.kept ]
             ELSE rest

\* clauses of an earlier call left in the list
LeftoverClauses == clauses
\* clauses = []
NewClauses == << >>

\* no call of split_into_clauses has started
SegReady ==
    /\ self = "none"
    /\ pc = "idle"
    /\ lines = << >>
    /\ idx = 1
    /\ clauses = << >>
    /\ current_clause = ""
    /\ filtered_clauses = << >>
    /\ clause_tags = << >>
    /\ current_tag = ""
    /\ kept = << >>
    /\ consumed = ""
    /\ event = "none"
    /\ nsplits = 0
    /\ calls = 0
    /\ prev_result = << >>
SegInit ==
    /\ text \in Texts
    /\ max_length \in MaxLengths
    /\ SegReady

ClsIdle ==
    /\ cls_text = ""
    /\ cls_pc = "input"
    /\ clause_type = "unset"
    /\ hf_result = [ success |-> FALSE, document_type |-> "unset",
                     confidence |-> << 0, 1 >>, model_used |-> "unset" ]
    /\ granite_result = [ success |-> FALSE, classification |-> "unset",
                          confidence |-> << 0, 1 >>, model_used |-> "unset" ]

\* no simplifier has been called, and none will be
SimpIdle ==
    /\ simp_text = ""
    /\ simp_pc = "input"
    /\ hf_simplified = [ success |-> FALSE, original |-> "", simplified |-> "",
                         model_used |-> "unset" ]
    /\ granite_simplified = [ success |-> FALSE, original |-> "", simplified |-> "",
                              model_used |-> "unset" ]
    /\ watson_simplified = ""

\* "Initialize session state"
SessionDefaults ==
    [ document_text |-> "", filename |-> "", clauses |-> << >>, simplified_text |-> "",
      document_summary |-> "", clause_analysis |-> << >>, document_type |-> "" ]

\* what a run of the script did and rendered
NothingRendered ==
    [ analysis_section |-> FALSE, invoked |-> "none", invoked_text |-> "",
      segmented |-> << >>, built |-> << >>, limit |-> 0, download_options |-> FALSE ]

\* no local analysis has been called, and none will be
AnaIdle ==
    /\ ana_text = ""
    /\ ana_pc = "input"
    /\ ana_key_info = << >>
    /\ ana_summary = [ success |-> FALSE, summary |-> "", model_used |-> "unset" ]
    /\ ana_entities = [ success |-> FALSE,
                        entities |-> [ legal_terms |-> << >>, obligations |-> << >> ],
                        model_used |-> "unset" ]

\* the tasks that run one invocation each, side by side
Tasks == { "A", "B" }
\* the locals of an invocation that has not assigned any
NoLocals ==
    [ lines |-> << >>, i |-> 1, clauses |-> << >>, current_clause |-> "",
      response |-> [ outcome |-> "none", status |-> 0,
                     body |-> [ form |-> "empty", fields |-> << >>, items |-> << >> ] ],
      result |-> [ raised |-> FALSE, returned |-> << >> ] ]
\* no task runs
TaskIdle ==
    /\ invocation = [ t \in Tasks |-> [ op |-> "none", doc |-> "" ] ]
    /\ task_pc = [ t \in Tasks |-> "idle" ]
    /\ frame = [ t \in Tasks |-> NoLocals ]
    /\ trace = [ t \in Tasks |-> << >> ]

\* uploaded_file is None
NoFile == [ present |-> FALSE, name |-> "", parts |-> << >>, sound |-> TRUE,
            report_raises |-> FALSE ]
\* process_document is not called
IngIdle ==
    /\ ing_file = NoFile
    /\ ing_pc = "idle"
    /\ ing_result = [ raised |-> FALSE, returned |-> [ success |-> FALSE, text |-> "" ] ]

\* the application is not run
AppIdle ==
    /\ uploaded_file = "none"
    /\ session_state = SessionDefaults
    /\ page = NothingRendered
    /\ returned = << >>

\* a remote service that is never called
NoResponse == [ outcome |-> "none", status |-> 0,
                body |-> [ form |-> "empty", fields |-> << >>, items |-> << >> ] ]
\* no client operation has been called, and none will be
OpIdle ==
    /\ api_key = ""
    /\ op_text = ""
    /\ op_pc = "ready"
    /\ op_called = << "none", "none" >>
    /\ op_response = NoResponse
    /\ op_result = [ raised |-> FALSE,
                     returned |-> [ success |-> FALSE, model_used |-> "unset" ] ]

\* split_into_clauses(text, max_length) is called on some processor
Call ==
    /\ pc \in { "idle", "done" }
    /\ calls < MaxCalls
    /\ calls' = calls + 1
    /\ self' \in Processors
    /\ prev_result' = IF pc = "done" THEN filtered_clauses ELSE prev_result
    /\ lines' = Split(text, "\n")
    /\ idx' = 1
    /\ clauses' = NewClauses
    /\ current_clause' = ""
    /\ filtered_clauses' = << >>
    /\ clause_tags' = << >>
    /\ current_tag' = ""
    /\ kept' = << >>
    /\ consumed' = ""
    /\ event' = "none"
    /\ nsplits' = 0
    /\ pc' = "scan"
    /\ UNCHANGED << text, max_length, other_than_seg >>

\* one iteration of the for loop on a blank line: continue
SkipBlankLine ==
    /\ pc = "scan"
    /\ idx <= Len(lines)
    /\ CurrentLine = ""
    /\ idx' = idx + 1
    /\ event' = "none"
    /\ UNCHANGED << text, max_length, self, pc, lines, clauses, current_clause,
                    filtered_clauses, clause_tags, current_tag, kept, consumed,
                    nsplits, calls, prev_result, other_than_seg >>

\* one iteration on a boundary line that finds a non-empty buffer
BoundaryLine ==
    /\ pc = "scan"
    /\ idx <= Len(lines)
    /\ CurrentLine # ""
    /\ ClosesBuffer(CurrentLine)
    /\ ProcessLine(CurrentLine)
    /\ UNCHANGED << text, max_length, self, pc, lines, filtered_clauses, kept,
                    calls, prev_result, other_than_seg >>

\* one iteration on any other non-blank line
AppendLine ==
    /\ pc = "scan"
    /\ idx <= Len(lines)
    /\ CurrentLine # ""
    /\ ~ ClosesBuffer(CurrentLine)
    /\ ProcessLine(CurrentLine)
    /\ UNCHANGED << text, max_length, self, pc, lines, filtered_clauses, kept,
                    calls, prev_result, other_than_seg >>

\* after the loop: flush the buffer, filter, return
Finish ==
    /\ pc = "scan"
    /\ idx > Len(lines)
    /\ LET cl == IF current_clause # "" THEN Append(clauses, Strip(current_clause))
                 ELSE clauses
           ct == IF current_clause # ""
                 THEN Append(clause_tags, StripOf(current_clause, current_tag))
                 ELSE clause_tags
           f  == FilterFrom(cl, 1)
       IN  /\ clauses' = cl
           /\ clause_tags' = ct
           /\ filtered_clauses' = f.out
           /\ kept' = f.kept
    /\ pc' = "done"
    /\ event' = "none"
    /\ UNCHANGED << text, max_length, self, lines, idx, current_clause, current_tag,
                    consumed, nsplits, calls, prev_result, other_than_seg >>

SegNext == Call \/ SkipBlankLine \/ BoundaryLine \/ AppendLine \/ Finish

Init == SegInit /\ ClsIdle /\ SimpIdle /\ OpIdle /\ AppIdle /\ AnaIdle /\ TaskIdle /\ IngIdle
Next == SegNext
Spec == Init /\ [][Next]_vars


(***************************************************************************)
(* The classifiers: inputs                                                 *)
(***************************************************************************)
\* a classifier input is at most MaxWords words of Vocabulary joined by spaces
MaxWords == 3
Vocabulary ==
    { "Confidential", "TERMINATION", "repayment", "responsible", "breach",
      "jurisdiction", "dispute", "term", "partnership", "rental", "nda",
      "employee salary benefits work" }
ClsTexts ==
    UNION { { Join(ws, " ") : ws \in [ 1..n -> Vocabulary ] } : n \in 0..MaxWords }

(***************************************************************************)
(* Confidence values are exact fractions << numerator, denominator >>      *)
(***************************************************************************)
RatLeq(a, b) == a[1] * b[2] <= b[1] * a[2]
RatMin(a, b) == IF RatLeq(a, b) THEN a ELSE b
RatMax(a, b) == IF RatLeq(a, b) THEN b ELSE a

\* any(word in clause_lower for word in words)
AnyIn(words, lowered) == \E w \in 1..Len(words) : Contains(lowered, words[w])
\* sum(1 for keyword in keywords if keyword in text_lower)
KeywordHits(keywords, lowered) ==
    Cardinality({ k \in 1..Len(keywords) : Contains(lowered, keywords[k]) })

\* a max that keeps the last of several maximal entries
LastMax(scores) ==
    CHOOSE k \in 1..Len(scores) :
        /\ \A j \in 1..Len(scores) : scores[j] <= scores[k]
        /\ \A j \in (k + 1)..Len(scores) : scores[j] < scores[k]
\* max(scores, key=...): Python's max returns the first of several maximal entries,
\* and a dict iterates in insertion order
FirstMax(scores) ==
    CHOOSE k \in 1..Len(scores) :
        /\ \A j \in 1..Len(scores) : scores[j] <= scores[k]
        /\ \A j \in 1..(k - 1) : scores[j] < scores[k]

(***************************************************************************)
(* app.classify_clause_type                                                *)
(***************************************************************************)
\* the chain without its final else: no return value when no rule matches
classify_without_default(clause) ==
    LET clause_lower == Lower(clause)
    IN  IF AnyIn(<< "confidential", "non-disclosure" >>, clause_lower) THEN "Confidentiality"
        ELSE IF AnyIn(<< "termination", "terminate" >>, clause_lower) THEN "Termination"
        ELSE IF AnyIn(<< "payment", "pay", "fee" >>, clause_lower) THEN "Payment"
        ELSE IF AnyIn(<< "liability", "responsible" >>, clause_lower) THEN "Liability"
        ELSE IF AnyIn(<< "breach", "default" >>, clause_lower) THEN "Breach"
        ELSE IF AnyIn(<< "governing law", "jurisdiction" >>, clause_lower) THEN "Governing Law"
        ELSE IF AnyIn(<< "dispute", "arbitration" >>, clause_lower) THEN "Dispute Resolution"
        ELSE "None"
\* the chain with its first two tests exchanged
classify_termination_first(clause) ==
    LET clause_lower == Lower(clause)
    IN  IF AnyIn(<< "termination", "terminate" >>, clause_lower) THEN "Termination"
        ELSE IF AnyIn(<< "confidential", "non-disclosure" >>, clause_lower) THEN "Confidentiality"
        ELSE IF AnyIn(<< "payment", "pay", "fee" >>, clause_lower) THEN "Payment"
        ELSE IF AnyIn(<< "liability", "responsible" >>, clause_lower) THEN "Liability"
        ELSE IF AnyIn(<< "breach", "default" >>, clause_lower) THEN "Breach"
        ELSE IF AnyIn(<< "governing law", "jurisdiction" >>, clause_lower) THEN "Governing Law"
        ELSE IF AnyIn(<< "dispute", "arbitration" >>, clause_lower) THEN "Dispute Resolution"
        ELSE "General"
classify_clause_type(clause) ==
    LET clause_lower == Lower(clause)
    IN  IF AnyIn(<< "confidential", "non-disclosure" >>, clause_lower) THEN "Confidentiality"
        ELSE IF AnyIn(<< "termination", "terminate" >>, clause_lower) THEN "Termination"
        ELSE IF AnyIn(<< "payment", "pay", "fee" >>, clause_lower) THEN "Payment"
        ELSE IF AnyIn(<< "liability", "responsible" >>, clause_lower) THEN "Liability"
        ELSE IF AnyIn(<< "breach", "default" >>, clause_lower) THEN "Breach"
        ELSE IF AnyIn(<< "governing law", "jurisdiction" >>, clause_lower) THEN "Governing Law"
        ELSE IF AnyIn(<< "dispute", "arbitration" >>, clause_lower) THEN "Dispute Resolution"
        ELSE "General"

(***************************************************************************)
(* HuggingFaceClient._local_document_classification                        *)
(***************************************************************************)
doc_types ==
    << [ name |-> "Non-Disclosure Agreement (NDA)",
         keywords |-> << "confidential", "non-disclosure", "nda", "trade secret", "proprietary" >> ],
       [ name |-> "Employment Contract",
         keywords |-> << "employment", "employee", "salary", "benefits", "termination", "work" >> ],
       [ name |-> "Lease Agreement",
         keywords |-> << "lease", "rent", "tenant", "landlord", "property", "premises" >> ],
       [ name |-> "Service Agreement",
         keywords |-> << "service", "provider", "client", "scope of work", "deliverables" >> ],
       [ name |-> "Purchase Agreement",
         keywords |-> << "purchase", "buy", "seller", "buyer", "payment", "delivery" >> ] >>

\* scores[doc_type] = sum(1 for keyword in keywords if keyword in text_lower)
hf_scores(t) ==
    LET text_lower == Lower(t)
    IN  [ k \in 1..Len(doc_types) |-> KeywordHits(doc_types[k].keywords, text_lower) ]

\* best_type = max(scores, key=scores.get) if scores else "Legal Document"
hf_best_type(scores) ==
    IF Len(scores) > 0 THEN doc_types[FirstMax(scores)].name ELSE "Legal Document"

\* confidence = min(0.95, max(0.6, scores[best_type] / 5))
hf_confidence(score) == RatMin(<< 19, 20 >>, RatMax(<< 3, 5 >>, << score, 5 >>))

_local_document_classification(t) ==
    LET scores == hf_scores(t)
    IN  [ success       |-> TRUE,
          document_type |-> hf_best_type(scores),
          confidence    |-> hf_confidence(scores[FirstMax(scores)]),
          model_used    |-> "Local Keyword Matching" ]

(***************************************************************************)
(* GraniteClient._enhanced_local_classification                            *)
(***************************************************************************)
doc_patterns ==
    << [ name |-> "NDA", weight |-> 1,
         keywords |-> << "confidential", "non-disclosure", "proprietary", "trade secret", "nda" >> ],
       [ name |-> "Employment Contract", weight |-> 1,
         keywords |-> << "employment", "employee", "hire", "termination", "salary",
                         "compensation", "work" >> ],
       [ name |-> "Lease Agreement", weight |-> 1,
         keywords |-> << "lease", "rent", "tenant", "landlord", "property", "premises", "rental" >> ],
       [ name |-> "Service Agreement", weight |-> 1,
         keywords |-> << "service", "vendor", "provider", "deliverable", "scope", "consulting" >> ],
       [ name |-> "Purchase Agreement", weight |-> 1,
         keywords |-> << "purchase", "buy", "sale", "payment", "delivery", "goods", "product" >> ],
       [ name |-> "Partnership Agreement", weight |-> 1,
         keywords |-> << "partnership", "partner", "joint venture", "collaboration", "cooperation" >> ] >>

\* score += pattern["weight"] for every keyword in text_lower
granite_scores(t) ==
    LET text_lower == Lower(t)
    IN  [ k \in 1..Len(doc_patterns) |->
            doc_patterns[k].weight * KeywordHits(doc_patterns[k].keywords, text_lower) ]

\* confidence = min(best_match[1] / 3.0, 1.0)
granite_confidence(score) == RatMin(<< score, 3 >>, << 1, 1 >>)

\* if scores: best_match = max(scores.items(), key=lambda x: x[1]) ... else: General Contract
_enhanced_local_classification(t) ==
    LET scores == granite_scores(t)
    IN  IF Len(scores) > 0
        THEN [ success        |-> TRUE,
               classification |-> doc_patterns[FirstMax(scores)].name,
               confidence     |-> granite_confidence(scores[FirstMax(scores)]),
               model_used     |-> "enhanced-local-classification" ]
        ELSE [ success        |-> TRUE,
               classification |-> "General Contract",
               confidence     |-> << 3, 10 >>,
               model_used     |-> "enhanced-local-classification" ]

(***************************************************************************)
(* The classifiers applied to an input                                     *)
(***************************************************************************)
SegIdle ==
    /\ text = ""
    /\ max_length = DefaultMaxLength
    /\ self = "none"
    /\ pc = "idle"
    /\ lines = << >>
    /\ idx = 1
    /\ clauses = << >>
    /\ current_clause = ""
    /\ filtered_clauses = << >>
    /\ clause_tags = << >>
    /\ current_tag = ""
    /\ kept = << >>
    /\ consumed = ""
    /\ event = "none"
    /\ nsplits = 0
    /\ calls = 0
    /\ prev_result = << >>

ClsInit ==
    /\ cls_text \in ClsTexts
    /\ cls_pc = "input"
    /\ clause_type = "unset"
    /\ hf_result = [ success |-> FALSE, document_type |-> "unset",
                     confidence |-> << 0, 1 >>, model_used |-> "unset" ]
    /\ granite_result = [ success |-> FALSE, classification |-> "unset",
                          confidence |-> << 0, 1 >>, model_used |-> "unset" ]

\* classify_clause_type(clause) is called
ClassifyClause ==
    /\ cls_pc = "input"
    /\ clause_type' = classify_clause_type(cls_text)
    /\ cls_pc' = "clause"
    /\ UNCHANGED << cls_text, hf_result, granite_result, other_than_cls >>

\* HuggingFaceClient._local_document_classification(text) is called
HFClassifyLocal ==
    /\ cls_pc = "input"
    /\ hf_result' = _local_document_classification(cls_text)
    /\ cls_pc' = "hf"
    /\ UNCHANGED << cls_text, clause_type, granite_result, other_than_cls >>

\* GraniteClient._enhanced_local_classification(text) is called
GraniteClassifyLocal ==
    /\ cls_pc = "input"
    /\ granite_result' = _enhanced_local_classification(cls_text)
    /\ cls_pc' = "granite"
    /\ UNCHANGED << cls_text, clause_type, hf_result, other_than_cls >>

ClsNext == ClassifyClause \/ HFClassifyLocal \/ GraniteClassifyLocal
ClassifierInit == SegIdle /\ ClsInit /\ SimpIdle /\ OpIdle /\ AppIdle /\ AnaIdle /\ TaskIdle /\ IngIdle
ClassifierSpec == ClassifierInit /\ [][ClsNext]_vars

(***************************************************************************)
(* Python string primitives of the simplifiers                             *)
(***************************************************************************)
RECURSIVE GreedyFrom(_, _, _)
\* of the candidate match positions P of a pattern of length n, those a left-to-right
\* non-overlapping scan starting at lo takes, in increasing order
GreedyFrom(P, n, lo) ==
    LET Q == { p \in P : p >= lo }
    IN  IF Q = {} THEN << >>
        ELSE LET i == CHOOSE p \in Q : \A q \in Q : p <= q
             IN  << i >> \o GreedyFrom(P, n, i + n)

\* str.split(sep) for a non-empty separator of any length
SplitOn(s, sep) ==
    LET n == Len(sep)
        P == { i \in 1..(Len(s) - n + 1) : SubSeq(s, i, i + n - 1) = sep }
        starts == GreedyFrom(P, n, 1)
    IN  IF P = {} THEN << s >>
        ELSE PiecesBetween(s, starts, [ k \in 1..Len(starts) |-> starts[k] + n - 1 ])

\* str.replace(old, new) for a non-empty old
Replace(s, old, new) == Join(SplitOn(s, old), new)

RECURSIVE TitleRange(_, _, _)
\* the characters lo..hi of s.title(): a letter is upper-cased when the character
\* before it is not a letter, lower-cased otherwise
TitleRange(s, lo, hi) ==
    IF lo > hi THEN ""
    ELSE IF lo = hi
         THEN IF lo > 1 /\ Char(s, lo - 1) \in (LowerSet \cup UpperSet)
              THEN ToLowerChar(Char(s, lo))
              ELSE ToUpperChar(Char(s, lo))
         ELSE TitleRange(s, lo, (lo + hi) \div 2) \o TitleRange(s, (lo + hi) \div 2 + 1, hi)
\* str.title()
Title(s) == TitleRange(s, 1, Len(s))

\* \w of a regular expression
IsWordChar(c) == c \in (LowerSet \cup UpperSet \cup DigitSet \cup { "_" })

\* re.sub(r'\bterm\b', repl, s, flags=re.IGNORECASE) for a term that begins and ends
\* with a letter
ReSubWord(s, term, repl) ==
    LET n == Len(term)
        lowered == Lower(s)
        P == { i \in 1..(Len(s) - n + 1) :
                 /\ SubSeq(lowered, i, i + n - 1) = term
                 /\ (i = 1 \/ ~ IsWordChar(Char(s, i - 1)))
                 /\ (i + n - 1 = Len(s) \/ ~ IsWordChar(Char(s, i + n))) }
        starts == GreedyFrom(P, n, 1)
    IN  IF P = {} THEN s
        ELSE Join(PiecesBetween(s, starts, [ k \in 1..Len(starts) |-> starts[k] + n - 1 ]), repl)

\* the conjunctions of re.split(r'\s+(and|or|but)\s+', sentence)
Conjunctions == << "and", "or", "but" >>
\* first / last index of the whitespace run that ends / begins at i
RunStart(s, i) ==
    CHOOSE a \in 1..i : /\ \A j \in a..i : Char(s, j) \in WhitespaceChars
                        /\ (a = 1 \/ Char(s, a - 1) \notin WhitespaceChars)
RunEnd(s, i) ==
    CHOOSE b \in i..Len(s) : /\ \A j \in i..b : Char(s, j) \in WhitespaceChars
                             /\ (b = Len(s) \/ Char(s, b + 1) \notin WhitespaceChars)
RECURSIVE ConjunctionMatches(_, _, _)
\* the matches of \s+(and|or|but)\s+ from position lo on, each << first, last, word >>
ConjunctionMatches(s, C, lo) ==
    LET Q == { c \in C : c[1] >= lo }
    IN  IF Q = {} THEN << >>
        ELSE LET m == CHOOSE c \in Q : \A d \in Q : c[1] <= d[1]
             IN  << m >> \o ConjunctionMatches(s, C, m[2] + 1)
\* re.split(r'\s+(and|or|but)\s+', s): the pieces between the matches, with the
\* captured conjunction of each match between them
ReSplitConjunctions(s) ==
    LET C == { << RunStart(s, j - 1), RunEnd(s, j + Len(Conjunctions[w])), Conjunctions[w] >> :
                 << j, w >> \in { jw \in (2..Len(s)) \X (1..Len(Conjunctions)) :
                     /\ jw[1] + Len(Conjunctions[jw[2]]) <= Len(s)
                     /\ SubSeq(s, jw[1], jw[1] + Len(Conjunctions[jw[2]]) - 1) = Conjunctions[jw[2]]
                     /\ Char(s, jw[1] - 1) \in WhitespaceChars
                     /\ Char(s, jw[1] + Len(Conjunctions[jw[2]])) \in WhitespaceChars } }
        ms == ConjunctionMatches(s, C, 1)
        pieces == PiecesBetween(s, [ k \in 1..Len(ms) |-> ms[k][1] ], [ k \in 1..Len(ms) |-> ms[k][2] ])
    IN  [ k \in 1..(2 * Len(ms) + 1) |->
            IF k % 2 = 1 THEN pieces[(k + 1) \div 2] ELSE ms[k \div 2][3] ]

RECURSIVE Concat(_)
\* the concatenation of a list of lists (list.extend / list.append in a loop)
Concat(lists) ==
    IF Len(lists) = 0 THEN << >>
    ELSE IF Len(lists) = 1 THEN lists[1]
    ELSE lists[1] \o Concat(Tail(lists))

\* a sentence longer than this is broken down
LongSentence == 100

(***************************************************************************)
(* HuggingFaceClient._local_clause_simplification                          *)
(***************************************************************************)
\* the patterns r'\b<term>\b' of replacements, each with its replacement, in dict order
replacements ==
    << << "hereinafter", "from now on" >>,
       << "whereas", "since" >>,
       << "hereby", "by this" >>,
       << "thereof", "of this" >>,
       << "therein", "in this" >>,
       << "thereto", "to this" >>,
       << "aforesaid", "mentioned above" >>,
       << "subject to", "depending on" >>,
       << "provided that", "but only if" >>,
       << "in accordance with", "following" >>,
       << "notwithstanding", "despite" >>,
       << "for the avoidance of doubt", "to be clear" >>,
       << "without prejudice to", "without affecting" >>,
       << "save and except", "except for" >>,
       << "null and void", "completely invalid" >> >>

RECURSIVE hf_substitute(_, _)
\* for legal_term, simple_term in replacements.items(): re.sub(..., flags=re.IGNORECASE)
hf_substitute(s, k) ==
    IF k > Len(replacements) THEN s
    ELSE LET replaced == ReSubWord(s, replacements[k][1], replacements[k][2])
         IN  IF Len(replaced) >= 0 THEN hf_substitute(replaced, k + 1) ELSE replaced

\* one sentence of the loop: a long one is split at its conjunctions
hf_sentence_parts(sentence) ==
    IF Len(sentence) > LongSentence
    THEN LET parts == ReSplitConjunctions(sentence)
         IN  IF Len(parts) > 1 THEN parts ELSE << sentence >>
    ELSE << sentence >>

\* sentences = simplified.split('. ') ... simplified = '. '.join(simplified_sentences)
hf_break_sentences(simplified) ==
    LET sentences == SplitOn(simplified, ". ")
    IN  Join(Concat([ k \in 1..Len(sentences) |-> hf_sentence_parts(sentences[k]) ]), ". ")

_local_clause_simplification(clause) ==
    [ success    |-> TRUE,
      original   |-> clause,
      simplified |-> hf_break_sentences(hf_substitute(clause, 1)),
      model_used |-> "Local Rule-based Simplification" ]

(***************************************************************************)
(* GraniteClient._enhanced_local_simplification                            *)
(***************************************************************************)
\* legal_replacements, in dict order
legal_replacements ==
    << << "hereinafter", "from now on" >>,
       << "whereas", "since" >>,
       << "aforesaid", "mentioned above" >>,
       << "pursuant to", "according to" >>,
       << "notwithstanding", "despite" >>,
       << "in witness whereof", "to confirm this" >>,
       << "party of the first part", "first party" >>,
       << "party of the second part", "second party" >>,
       << "hereby", "by this" >>,
       << "herein", "in this document" >>,
       << "hereto", "to this" >>,
       << "hereof", "of this" >>,
       << "thereof", "of that" >>,
       << "therein", "in that" >>,
       << "thereto", "to that" >>,
       << "subject to", "depending on" >>,
       << "in accordance with", "following" >>,
       << "for the avoidance of doubt", "to be clear" >>,
       << "save and except", "except" >>,
       << "mutatis mutandis", "with necessary changes" >>,
       << "inter alia", "among other things" >>,
       << "prima facie", "at first glance" >>,
       << "de facto", "in fact" >>,
       << "de jure", "by law" >>,
       << "ex parte", "from one side" >>,
       << "in camera", "in private" >>,
       << "sub judice", "under consideration" >>,
       << "ultra vires", "beyond authority" >>,
       << "bona fide", "in good faith" >>,
       << "mala fide", "in bad faith" >>,
       << "force majeure", "unforeseen circumstances" >>,
       << "ipso facto", "by that very fact" >>,
       << "per se", "by itself" >>,
       << "ad hoc", "for this specific purpose" >>,
       << "pro rata", "proportionally" >>,
       << "quid pro quo", "something for something" >>,
       << "status quo", "current situation" >>,
       << "vice versa", "the other way around" >>,
       << "et al", "and others" >>,
       << "i.e.", "that is" >>,
       << "e.g.", "for example" >>,
       << "viz.", "namely" >>,
       << "cf.", "compare" >>,
       << "ibid", "same source" >>,
       << "op. cit.", "work cited" >>,
       << "loc. cit.", "place cited" >>,
       << "supra", "above" >>,
       << "infra", "below" >>,
       << "ante", "before" >>,
       << "post", "after" >> >>
\* legal_term.title(), simple_term.title() of every entry
legal_replacements_title ==
    [ k \in 1..Len(legal_replacements) |->
        << Title(legal_replacements[k][1]), Title(legal_replacements[k][2]) >> ]

RECURSIVE ReplaceTerms(_, _, _, _)
\* for legal_term, simple_term in table.items():
\*     simplified = simplified.replace(legal_term, simple_term)
\*     simplified = simplified.replace(legal_term.title(), simple_term.title())
\* (the length test makes the step's result a value before the next step starts)
ReplaceTerms(s, table, titled, k) ==
    IF k > Len(table) THEN s
    ELSE LET lowered == Replace(s, table[k][1], table[k][2])
             replaced == Replace(lowered, titled[k][1], titled[k][2])
         IN  IF Len(lowered) >= 0 /\ Len(replaced) >= 0
             THEN ReplaceTerms(replaced, table, titled, k + 1)
             ELSE replaced

connectors ==
    << " and ", " or ", " but ", " however ", " furthermore ", " moreover ", " additionally " >>

\* one sentence of the loop: a long one is split at the first connector of the list
\* that occurs in it
granite_sentence_parts(sentence) ==
    IF Len(sentence) > LongSentence
    THEN IF \E c \in 1..Len(connectors) : Contains(sentence, connectors[c])
         THEN LET first == CHOOSE c \in 1..Len(connectors) :
                          /\ Contains(sentence, connectors[c])
                          /\ \A d \in 1..(c - 1) : ~ Contains(sentence, connectors[d])
              IN  SplitOn(sentence, connectors[first])
         ELSE << sentence >>
    ELSE << sentence >>

\* sentences = simplified.split('.') ... simplified = '. '.join(simplified_sentences)
granite_break_sentences(simplified) ==
    LET sentences == Split(simplified, ".")
    IN  Join(Concat([ k \in 1..Len(sentences) |-> granite_sentence_parts(sentences[k]) ]), ". ")

\* complex_terms, each with the meaning its explanation gives
complex_terms ==
    << << "liability", "legal responsibility for damages" >>,
       << "indemnification", "protection against legal claims" >>,
       << "breach", "violation of the agreement" >>,
       << "termination", "ending the agreement" >>,
       << "jurisdiction", "which court system applies" >>,
       << "arbitration", "dispute resolution outside of court" >>,
       << "governing law", "which state's laws apply" >>,
       << "force majeure", "unforeseeable circumstances that prevent performance" >> >>

RECURSIVE SelectSeq2(_, _, _)
\* the elements of a list whose index satisfies keep, in order
SelectSeq2(list, keep, k) ==
    IF k > Len(list) THEN << >>
    ELSE (IF keep[k] THEN << list[k] >> ELSE << >>) \o SelectSeq2(list, keep, k + 1)

\* explanations: one per complex term found in simplified.lower()
explanations(lowered) ==
    SelectSeq2([ k \in 1..Len(complex_terms) |->
                   "'" \o complex_terms[k][1] \o "' means " \o complex_terms[k][2] ],
               [ k \in 1..Len(complex_terms) |-> Contains(lowered, complex_terms[k][1]) ], 1)

\* if explanations: simplified += "\n\nKey terms explained: ..."
with_explanations(simplified) ==
    LET e == explanations(Lower(simplified))
    IN  IF Len(e) > 0 THEN simplified \o "\n\nKey terms explained: " \o Join(e, "; ")
        ELSE simplified

summary_heading ==
    "\n\nSUMMARY:\n"
    \o "This document has been simplified to make it easier to understand. "
    \o "The key points are:\n"

\* key_points, from the text with its summary heading
key_points(lowered) ==
    SelectSeq2(<< "- Contains obligations that must be followed",
                  "- Discusses legal responsibility",
                  "- Explains how the agreement can end",
                  "- Contains payment terms" >>,
               << Contains(lowered, "shall") \/ Contains(lowered, "must"),
                  Contains(lowered, "liability"),
                  Contains(lowered, "termination"),
                  Contains(lowered, "payment") \/ Contains(lowered, "compensation") >>, 1)

\* simplified += summary heading; then the key points, or the default bullet
with_summary(simplified) ==
    LET headed == simplified \o summary_heading
        points == key_points(Lower(headed))
    IN  IF Len(points) > 0 THEN headed \o Join(points, "\n")
        ELSE headed \o "- Review all terms carefully before signing"

_enhanced_local_simplification(t) ==
    [ success    |-> TRUE,
      original   |-> t,
      simplified |-> with_summary(with_explanations(granite_break_sentences(
                         ReplaceTerms(t, legal_replacements, legal_replacements_title, 1)))),
      model_used |-> "enhanced-local-simplification" ]

(***************************************************************************)
(* WatsonClient._create_simplified_text                                    *)
(***************************************************************************)
\* legal_terms, in dict order
legal_terms ==
    << << "hereinafter", "from now on" >>,
       << "whereas", "since" >>,
       << "aforesaid", "mentioned above" >>,
       << "pursuant to", "according to" >>,
       << "notwithstanding", "despite" >>,
       << "in witness whereof", "to confirm this" >>,
       << "party of the first part", "first party" >>,
       << "party of the second part", "second party" >>,
       << "hereby", "by this" >>,
       << "herein", "in this document" >>,
       << "hereto", "to this" >>,
       << "hereof", "of this" >>,
       << "thereof", "of that" >>,
       << "therein", "in that" >>,
       << "thereto", "to that" >> >>
legal_terms_title ==
    [ k \in 1..Len(legal_terms) |-> << Title(legal_terms[k][1]), Title(legal_terms[k][2]) >> ]

\* the entity lists the language service may hand in
EntityLists ==
    { << >>,
      << [ text |-> "Acme Corp", type |-> "Organization" ] >>,
      << [ text |-> "ten", type |-> "Quantity" ], [ text |-> "1 May 2024", type |-> "Date" ] >> }

\* entity_explanations, and the text with them appended
with_entities(simplified, entities) ==
    LET e == SelectSeq2([ k \in 1..Len(entities) |->
                            entities[k].text \o " (" \o entities[k].type \o ")" ],
                        [ k \in 1..Len(entities) |->
                            entities[k].type \in { "Person", "Organization", "Location", "Date" } ], 1)
    IN  IF Len(e) > 0 THEN simplified \o "\n\nKey entities: " \o Join(e, ", ")
        ELSE simplified

_create_simplified_text(original_text, entities) ==
    with_entities(ReplaceTerms(original_text, legal_terms, legal_terms_title, 1), entities)

(***************************************************************************)
(* The simplifiers applied to an input                                     *)
(***************************************************************************)
\* a simplifier input is at most MaxPhrases phrases of Phrases, concatenated
MaxPhrases == 3
Phrases ==
    { "The parties shall act notwithstanding any prior agreement. ",
      "NOTWITHSTANDING ",
      "Pursuant to the terms thereof ",
      "hereinafter therein ",
      "the supplier shall deliver the goods to the buyer and ",
      "the tenant may renew the lease for one further year ",
      "liability for breach ",
      ". " }
SimpTexts ==
    UNION { { Join(ps, "") : ps \in [ 1..n -> Phrases ] } : n \in 0..MaxPhrases }

SimpInit ==
    /\ simp_text \in SimpTexts
    /\ simp_pc = "input"
    /\ hf_simplified = [ success |-> FALSE, original |-> "", simplified |-> "",
                         model_used |-> "unset" ]
    /\ granite_simplified = [ success |-> FALSE, original |-> "", simplified |-> "",
                              model_used |-> "unset" ]
    /\ watson_simplified = ""

\* HuggingFaceClient._local_clause_simplification(clause) is called
HFSimplifyLocal ==
    /\ simp_pc = "input"
    /\ hf_simplified' = _local_clause_simplification(simp_text)
    /\ simp_pc' = "hf"
    /\ UNCHANGED << simp_text, granite_simplified, watson_simplified, other_than_simp >>

\* GraniteClient._enhanced_local_simplification(text) is called
GraniteSimplifyLocal ==
    /\ simp_pc = "input"
    /\ granite_simplified' = _enhanced_local_simplification(simp_text)
    /\ simp_pc' = "granite"
    /\ UNCHANGED << simp_text, hf_simplified, watson_simplified, other_than_simp >>

\* WatsonClient._create_simplified_text(original_text, entities, keywords) is called
WatsonCreateSimplified ==
    /\ simp_pc = "input"
    /\ \E entities \in EntityLists :
          watson_simplified' = _create_simplified_text(simp_text, entities)
    /\ simp_pc' = "watson"
    /\ UNCHANGED << simp_text, hf_simplified, granite_simplified, other_than_simp >>

SimpNext == HFSimplifyLocal \/ GraniteSimplifyLocal \/ WatsonCreateSimplified
SimplifierInit == SegIdle /\ ClsIdle /\ SimpInit /\ OpIdle /\ AppIdle /\ AnaIdle /\ TaskIdle /\ IngIdle
SimplifierSpec == SimplifierInit /\ [][SimpNext]_vars

(***************************************************************************)
(* The remote service, as the client operations see it                     *)
(***************************************************************************)
\* a parsed JSON body: null (None), an object (its fields in order, each
\* << key, value >>) or a list of objects; "empty" and "unparseable" bodies are
\* those response.json() raises on
JsonNull == [ form |-> "null", fields |-> << >>, items |-> << >> ]
JsonObject(fields) == [ form |-> "object", fields |-> fields, items |-> << >> ]
JsonList(items) == [ form |-> "list", fields |-> << >>, items |-> items ]
EmptyBody == [ form |-> "empty", fields |-> << >>, items |-> << >> ]
UnparseableBody == [ form |-> "unparseable", fields |-> << >>, items |-> << >> ]

Unreachable == [ outcome |-> "unreachable", status |-> 0, body |-> EmptyBody ]
Timeout == [ outcome |-> "timeout", status |-> 0, body |-> EmptyBody ]
Answer(status, body) == [ outcome |-> "response", status |-> status, body |-> body ]

\* response.status_code of a successful call
StatusOK == 200

\* what requests.post may do
Responses ==
    { Unreachable, Timeout,
      Answer(500, EmptyBody),
      Answer(503, JsonObject(<< << "error", "Model is currently loading" >> >>)),
      Answer(StatusOK, EmptyBody),
      Answer(StatusOK, UnparseableBody),
      Answer(StatusOK, JsonNull),
      Answer(StatusOK, JsonList(<< >>)),
      Answer(StatusOK, JsonObject(<< >>)),
      Answer(StatusOK, JsonObject(<< << "error", "Model is currently loading" >> >>)),
      Answer(StatusOK, JsonList(<< << >> >>)),
      Answer(StatusOK, JsonList(<< << << "generated_text", "" >> >> >>)),
      Answer(StatusOK, JsonList(<< << << "generated_text",
                 " This is a non-disclosure agreement.\nParty: Acme Corp " >> >> >>)),
      Answer(StatusOK, JsonObject(<< << "classification", "NDA" >>, << "confidence", "0.92" >>,
                                     << "simplified_text", "Plain words." >>,
                                     << "entities", "{}" >> >>)) }

\* response.json() raises
JsonRaises(body) == body.form \in { "empty", "unparseable" }
\* bool(result)
Truthy(body) ==
    \/ body.form = "object" /\ Len(body.fields) > 0
    \/ body.form = "list" /\ Len(body.items) > 0
\* dict.get(key, default); the empty dict given as a default is written "{}"
Get(fields, key, default) ==
    IF \E k \in 1..Len(fields) : fields[k][1] = key
    THEN fields[CHOOSE k \in 1..Len(fields) : fields[k][1] = key][2]
    ELSE default

\* self.api_available (bool(api_key) / `if not self.api_key`)
api_available == api_key # ""
\* a value the operation returned / an exception that left the operation
Returned(value) == [ raised |-> FALSE, returned |-> value ]
Raised(error) == [ raised |-> TRUE, returned |-> [ error |-> error ] ]

(***************************************************************************)
(* HuggingFaceClient: remote call with local fallback                      *)
(***************************************************************************)
granite_model == "ibm-granite/granite-13b-chat-v2"

\* a call that hands back the parsed body whatever the status is
_make_granite_call_any_status(response) ==
    IF ~ api_available THEN JsonNull
    ELSE IF response.outcome # "response" THEN JsonNull
    ELSE IF JsonRaises(response.body) THEN JsonNull
    ELSE response.body

\* _make_granite_call(prompt): None without a key, on an exception of the request
\* or of response.json(), and on a status other than 200; the parsed body otherwise
_make_granite_call(response) ==
    IF ~ api_available THEN JsonNull
    ELSE IF response.outcome # "response" THEN JsonNull
    ELSE IF response.status = StatusOK
         THEN (IF JsonRaises(response.body) THEN JsonNull ELSE response.body)
         ELSE JsonNull

\* result[0].get("generated_text", "").strip()
GeneratedText(result) == Strip(Get(result.items[1], "generated_text", ""))

type_mapping ==
    << << "nda", "Non-Disclosure Agreement (NDA)" >>,
       << "non-disclosure", "Non-Disclosure Agreement (NDA)" >>,
       << "confidential", "Non-Disclosure Agreement (NDA)" >>,
       << "employment", "Employment Contract" >>,
       << "employee", "Employment Contract" >>,
       << "hire", "Employment Contract" >>,
       << "lease", "Lease Agreement" >>,
       << "rent", "Lease Agreement" >>,
       << "tenant", "Lease Agreement" >>,
       << "service", "Service Agreement" >>,
       << "vendor", "Service Agreement" >>,
       << "purchase", "Purchase Agreement" >>,
       << "sale", "Purchase Agreement" >>,
       << "contract", "Legal Contract" >>,
       << "agreement", "Legal Contract" >> >>

_extract_document_type(response_text) ==
    LET response_lower == Lower(response_text)
        found == { k \in 1..Len(type_mapping) : Contains(response_lower, type_mapping[k][1]) }
    IN  IF found = {} THEN "Legal Document"
        ELSE type_mapping[CHOOSE k \in found : \A j \in found : k <= j][2]

entity_keywords == << "company", "party", "date", "amount", "term", "obligation" >>

\* the entity a line of the response gives
entity_of_line(line) ==
    LET lowered == Lower(line)
    IN  [ text |-> line,
          type |-> IF Contains(lowered, "company") \/ Contains(lowered, "party")
                   THEN "ORGANIZATION"
                   ELSE IF Contains(lowered, "date") THEN "DATE"
                   ELSE IF Contains(lowered, "amount") \/ Contains(line, "$") THEN "MONEY"
                   ELSE "LEGAL_TERM",
          confidence |-> << 4, 5 >> ]

_parse_entities_from_response(response_text) ==
    LET raw == Split(response_text, "\n")
        stripped == [ k \in 1..Len(raw) |-> Strip(raw[k]) ]
    IN  SelectSeq2([ k \in 1..Len(stripped) |-> entity_of_line(stripped[k]) ],
                   [ k \in 1..Len(stripped) |->
                       /\ stripped[k] # ""
                       /\ AnyIn(entity_keywords, Lower(stripped[k])) ], 1)

\* the local entity extraction always returns a result; the entities it computes
\* are not part of this model
_local_entity_extraction(t) ==
    [ success |-> TRUE, model_used |-> "Local Regex Extraction" ]

\* legal_terms of _local_summarization
summary_terms ==
    << "shall", "must", "agree", "obligated", "liable", "terminate", "breach",
       "damages", "confidential", "non-disclosure" >>
\* score += sum(2 for term in legal_terms if term in sentence_lower);
\* if 20 < len(sentence) < 100: score += 1
sentence_score(sentence) ==
    2 * KeywordHits(summary_terms, Lower(sentence))
    + (IF 20 < Len(sentence) /\ Len(sentence) < 100 THEN 1 ELSE 0)
\* an order that leaves the sentences where they are
document_order(scores) == [ k \in 1..Len(scores) |-> k ]
\* sentence_scores.sort(key=lambda x: x[1], reverse=True): the indices in the order
\* of the stable sort, highest score first
sorted_by_score(scores) ==
    [ k \in 1..Len(scores) |->
        CHOOSE i \in 1..Len(scores) :
            Cardinality({ j \in 1..Len(scores) :
                            \/ scores[j] > scores[i]
                            \/ scores[j] = scores[i] /\ j < i }) = k - 1 ]
\* summary = '. '.join(sentence for sentence, score in sentence_scores[:5]) + '.'
_local_summarization(t) ==
    LET sentences == Split(t, ".")
        scores == [ k \in 1..Len(sentences) |-> sentence_score(sentences[k]) ]
        order == sorted_by_score(scores)
        top_sentences ==
            [ k \in 1..(IF Len(sentences) < 5 THEN Len(sentences) ELSE 5) |->
                sentences[order[k]] ]
    IN  [ success |-> TRUE,
          summary |-> Join(top_sentences, ". ") \o ".",
          model_used |-> "Local Extractive Summarization" ]

\* `result[0]` of a non-empty object is a KeyError; every operation shares the shape
\*     if self.api_available:
\*         result = self._make_granite_call(prompt)
\*         if result and len(result) > 0: ... result[0].get("generated_text", "") ...
\*     return <local result>
hf_operation(result, remote, local) ==
    IF api_available /\ Truthy(result)
    THEN IF result.form = "object" THEN Raised("KeyError") ELSE Returned(remote)
    ELSE Returned(local)

classify_document_type(t, response) ==
    LET result == _make_granite_call(response)
    IN  hf_operation(result,
            [ success |-> TRUE,
              document_type |-> _extract_document_type(GeneratedText(result)),
              confidence |-> << 9, 10 >>,
              model_used |-> granite_model ],
            _local_document_classification(t))

simplify_clause(clause, response) ==
    LET result == _make_granite_call(response)
    IN  hf_operation(result,
            [ success |-> TRUE, original |-> clause,
              simplified |-> GeneratedText(result),
              model_used |-> granite_model ],
            _local_clause_simplification(clause))

extract_legal_entities(t, response) ==
    LET result == _make_granite_call(response)
    IN  hf_operation(result,
            [ success |-> TRUE,
              entities |-> _parse_entities_from_response(GeneratedText(result)),
              model_used |-> granite_model ],
            _local_entity_extraction(t))

generate_summary(t, response) ==
    LET result == _make_granite_call(response)
    IN  hf_operation(result,
            [ success |-> TRUE, summary |-> GeneratedText(result),
              model_used |-> granite_model ],
            _local_summarization(t))

(***************************************************************************)
(* GraniteClient: remote call with local fallback                          *)
(***************************************************************************)
granite_remote_model == "granite-13b-chat-v2"

\* legal_terms of _enhanced_local_entity_extraction
entity_legal_terms ==
    << "confidentiality", "non-disclosure", "proprietary", "trade secret",
       "liability", "indemnification", "breach", "termination",
       "jurisdiction", "arbitration", "governing law", "force majeure",
       "intellectual property", "copyright", "trademark", "patent",
       "warranty", "representation", "covenant", "condition" >>
obligation_indicators ==
    << "shall", "must", "will", "agree to", "obligated to", "required to" >>

\* the positions at which term occurs in lowered
Occurrences(lowered, term) ==
    { i \in 1..(Len(lowered) - Len(term) + 1) : SubSeq(lowered, i, i + Len(term) - 1) = term }
\* an extraction that emits an entity at every occurrence of a term
entities_per_occurrence(terms, lowered, type) ==
    Concat([ k \in 1..Len(terms) |->
               [ i \in 1..Cardinality(Occurrences(lowered, terms[k])) |->
                   [ text |-> terms[k], type |-> type ] ] ])
\* for term in terms: if term in text.lower(): entities[...].append({"text": term, "type": type})
entities_found(terms, lowered, type) ==
    SelectSeq2([ k \in 1..Len(terms) |-> [ text |-> terms[k], type |-> type ] ],
               [ k \in 1..Len(terms) |-> Contains(lowered, terms[k]) ], 1)

\* the enhanced local entity extraction always returns a result; of its entities the
\* legal terms and the obligations are modelled, the amounts, dates and parties the
\* regular expressions find are not
_enhanced_local_entity_extraction(t) ==
    [ success |-> TRUE,
      entities |-> [ legal_terms |-> entities_found(entity_legal_terms, Lower(t), "LegalTerm"),
                     obligations |-> entities_found(obligation_indicators, Lower(t),
                                                    "Obligation") ],
      model_used |-> "enhanced-local-extraction" ]

\* every operation shares the shape
\*     try:
\*         if self.api_available:
\*             response = requests.post(...)
\*             if response.status_code == 200:
\*                 result = response.json(); return {... result.get(...) ...}
\*             else: return <local result>
\*         else: return <local result>
\*     except Exception: return <local result>
\* (result.get on a list or on None is an AttributeError, caught like the others)
granite_uses_remote(response) ==
    /\ api_available
    /\ response.outcome = "response"
    /\ response.status = StatusOK
    /\ ~ JsonRaises(response.body)
    /\ response.body.form = "object"

classify_document_advanced(t, response) ==
    IF granite_uses_remote(response)
    THEN Returned([ success |-> TRUE,
                    classification |-> Get(response.body.fields, "classification", "Unknown"),
                    confidence |-> Get(response.body.fields, "confidence", "0.0"),
                    model_used |-> granite_remote_model ])
    ELSE Returned(_enhanced_local_classification(t))

generate_simplified_text(complex_text, response) ==
    IF granite_uses_remote(response)
    THEN Returned([ success |-> TRUE, original |-> complex_text,
                    simplified |-> Get(response.body.fields, "simplified_text", complex_text),
                    model_used |-> granite_remote_model ])
    ELSE Returned(_enhanced_local_simplification(complex_text))

extract_advanced_entities(t, response) ==
    IF granite_uses_remote(response)
    THEN Returned([ success |-> TRUE,
                    entities |-> Get(response.body.fields, "entities", "{}"),
                    model_used |-> granite_remote_model ])
    ELSE Returned(_enhanced_local_entity_extraction(t))

(***************************************************************************)
(* The client operations called in an environment                          *)
(***************************************************************************)
OpTexts == { "", "Confidential: the parties shall act notwithstanding any prior agreement. " }
ApiKeys == { "", "secret-key" }

OpInit ==
    /\ api_key \in ApiKeys
    /\ op_text \in OpTexts
    /\ op_pc = "ready"
    /\ op_called = << "none", "none" >>
    /\ op_response = NoResponse
    /\ op_result = Returned([ success |-> FALSE, model_used |-> "unset" ])

\* the remote service is called only with a key
ResponsesIfCalled == IF api_available THEN Responses ELSE { NoResponse }

\* one operation runs from its call to its return (or to the exception)
Operation(client, name, response, result) ==
    /\ op_pc = "ready"
    /\ op_called' = << client, name >>
    /\ op_response' = response
    /\ op_result' = result
    /\ op_pc' = "returned"
    /\ UNCHANGED << api_key, op_text, other_than_op >>

HFClassifyDocumentType ==
    \E response \in ResponsesIfCalled :
        Operation("huggingface", "classify", response, classify_document_type(op_text, response))
HFSimplifyClause ==
    \E response \in ResponsesIfCalled :
        Operation("huggingface", "simplify", response, simplify_clause(op_text, response))
HFExtractLegalEntities ==
    \E response \in ResponsesIfCalled :
        Operation("huggingface", "extract", response, extract_legal_entities(op_text, response))
HFGenerateSummary ==
    \E response \in ResponsesIfCalled :
        Operation("huggingface", "summarize", response, generate_summary(op_text, response))
GraniteClassifyDocumentAdvanced ==
    \E response \in ResponsesIfCalled :
        Operation("granite", "classify", response, classify_document_advanced(op_text, response))
GraniteGenerateSimplifiedText ==
    \E response \in ResponsesIfCalled :
        Operation("granite", "simplify", response, generate_simplified_text(op_text, response))
GraniteExtractAdvancedEntities ==
    \E response \in ResponsesIfCalled :
        Operation("granite", "extract", response, extract_advanced_entities(op_text, response))

OpNext ==
    \/ HFClassifyDocumentType \/ HFSimplifyClause \/ HFExtractLegalEntities \/ HFGenerateSummary
    \/ GraniteClassifyDocumentAdvanced \/ GraniteGenerateSimplifiedText
    \/ GraniteExtractAdvancedEntities
FallbackInit == SegIdle /\ ClsIdle /\ SimpIdle /\ OpInit /\ AppIdle /\ AnaIdle /\ TaskIdle /\ IngIdle
FallbackSpec == FallbackInit /\ [][OpNext]_vars

(***************************************************************************)
(* DocumentProcessor.split_into_clauses as one call                        *)
(***************************************************************************)
\* one iteration of the for loop over lines: the closed clauses cl and the buffer
\* current_clause after the line was handled
scan_line(raw, cl, buffer, maxlen) ==
    LET line == Strip(raw)
    IN  IF line = "" THEN [ cl |-> cl, buffer |-> buffer ]
        ELSE LET closes ==
                     /\ \/ is_clause_start(line)
                        \/ is_numbered_start(line)
                        \/ is_paragraph_break(line)
                     /\ buffer # ""
                 closed == IF closes THEN Append(cl, Strip(buffer)) ELSE cl
                 grown == IF closes THEN line
                          ELSE IF buffer # "" THEN buffer \o " " \o line ELSE line
                 sentences == ReSplit(grown)
             IN  IF Len(grown) > maxlen
                 THEN IF Len(sentences) > 1
                      THEN [ cl |-> Append(closed, Strip(FirstPart(sentences))),
                             buffer |-> SecondPart(sentences) ]
                      ELSE [ cl |-> Append(closed, Strip(grown)), buffer |-> "" ]
                 ELSE [ cl |-> closed, buffer |-> grown ]
\* "Add the last clause"
add_last_clause(cl, buffer) == IF buffer # "" THEN Append(cl, Strip(buffer)) ELSE cl
RECURSIVE ScanLines(_, _, _, _, _)
\* the for loop from line i on, with the closed clauses cl and the buffer; then
\* the last clause is added
ScanLines(ls, i, cl, buffer, maxlen) ==
    IF i > Len(ls) THEN add_last_clause(cl, buffer)
    ELSE LET after == scan_line(ls[i], cl, buffer, maxlen)
         IN  IF Len(after.cl) >= 0 /\ Len(after.buffer) >= 0
             THEN ScanLines(ls, i + 1, after.cl, after.buffer, maxlen)
             ELSE after.cl
\* doc_processor.split_into_clauses(text, max_length)
split_into_clauses(t, maxlen) ==
    FilterFrom(ScanLines(Split(t, "\n"), 1, << >>, "", maxlen), 1).out

(***************************************************************************)
(* app.py: the files a user may upload                                     *)
(***************************************************************************)
\* the number of clauses of the long document
LongDocumentClauses == 21

RECURSIVE Numeral(_)
\* str(k) for k >= 0
Numeral(k) ==
    IF k < 10 THEN Char(DigitChars, k + 1)
    ELSE Numeral(k \div 10) \o Char(DigitChars, (k % 10) + 1)
RECURSIVE NumberedClauses(_, _)
NumberedClauses(k, n) ==
    IF k > n THEN ""
    ELSE Numeral(k) \o ". The tenant shall pay the rent of month " \o Numeral(k) \o ".\n"
         \o NumberedClauses(k + 1, n)

\* the text the extractor gets out of each file ("": nothing)
FileText ==
    [ f \in { "scan.pdf", "note.txt", "nda.txt", "lease.txt" } |->
        CASE f = "scan.pdf" -> ""
          [] f = "note.txt" -> "Signed by both."
          [] f = "nda.txt" ->
                "1. The parties shall keep the terms of this agreement confidential.\n"
                \o "2. The buyer shall pay the fee and the seller may terminate on breach.\n"
          [] f = "lease.txt" -> NumberedClauses(1, LongDocumentClauses) ]
Files == DOMAIN FileText
AnalysisTypes ==
    { "Comprehensive Analysis", "Document Summarization", "Clause-by-Clause Analysis",
      "Document Simplification", "Legal Entity Extraction" }

(***************************************************************************)
(* app.py: helpers of the workflows                                        *)
(***************************************************************************)
\* legal_terms of extract_clause_key_info, in dict order
key_info_terms ==
    << << "confidential", "Contains confidentiality obligations" >>,
       << "termination", "Specifies termination conditions" >>,
       << "liability", "Defines liability and responsibility" >>,
       << "payment", "Outlines payment terms and conditions" >>,
       << "breach", "Defines what constitutes a breach" >>,
       << "governing law", "Specifies which law applies" >>,
       << "dispute", "Outlines dispute resolution process" >>,
       << "amendment", "Specifies how changes can be made" >>,
       << "force majeure", "Covers unforeseen circumstances" >>,
       << "indemnification", "Defines protection against losses" >> >>
\* a key-info extraction without the default entry
key_info_without_default(clause) ==
    SelectSeq2([ k \in 1..Len(key_info_terms) |-> key_info_terms[k][2] ],
               [ k \in 1..Len(key_info_terms) |->
                   Contains(Lower(clause), key_info_terms[k][1]) ], 1)
extract_clause_key_info(clause) ==
    LET clause_lower == Lower(clause)
        points ==
            SelectSeq2([ k \in 1..Len(key_info_terms) |-> key_info_terms[k][2] ],
                       [ k \in 1..Len(key_info_terms) |->
                           Contains(clause_lower, key_info_terms[k][1]) ], 1)
    IN  IF Len(points) = 0 THEN << "Standard legal clause" >> ELSE points

\* the limits of the clause loops
ComprehensiveLimit == 20
ClauseByClauseLimit == 15

\* a slice that takes every clause
WholeList(list, limit) == list
\* clauses[:limit]
FirstClauses(list, limit) ==
    SubSeq(list, 1, IF Len(list) < limit THEN Len(list) ELSE limit)

\* the value a successful result gives, the clause itself otherwise:
\* result.get("simplified", clause) if result.get("success") else clause
SimplifiedOr(result, clause) ==
    IF result.success
    THEN (IF "simplified" \in DOMAIN result THEN result.simplified ELSE clause)
    ELSE clause

\* the loop `for i, clause in enumerate(clauses[:limit], 1)` with its appends; the
\* client has no key, so hf_client.simplify_clause returns its local result
analyze_clauses(list, limit) ==
    LET taken == FirstClauses(list, limit)
    IN  [ i \in 1..Len(taken) |->
            [ clause_number |-> i,
              original |-> taken[i],
              simplified |-> SimplifiedOr(_local_clause_simplification(taken[i]),
                                          taken[i]),
              type |-> classify_clause_type(taken[i]),
              key_points |-> extract_clause_key_info(taken[i]) ] ]

(***************************************************************************)
(* app.py: session state, one run of main(), the workflows                 *)
(***************************************************************************)

\* DocumentProcessor.process_document on a file of a supported format
process_document(file) ==
    LET extracted == FileText[file]
    IN  IF extracted = ""
        THEN [ success |-> FALSE, text |-> "", error |-> "No text extracted from document" ]
        ELSE [ success |-> TRUE, text |-> extracted, error |-> "" ]

\* main(), "if uploaded_file is not None: ..."
after_upload(ss, file) ==
    IF file # "none" /\ process_document(file).success
    THEN [ ss EXCEPT !.document_text = process_document(file).text, !.filename = file ]
    ELSE ss

\* an analysis section that is shown whatever the session holds
shown_always(ss) == TRUE
\* main(), "if st.session_state.document_text:"
analysis_section_shown(ss) == ss.document_text # ""

\* the texts a session can hold, the default "" among them
DocumentTexts == { FileText[f] : f \in Files } \cup { "" }
\* what the calls of the workflows return for the text t. The client has no key:
\* each of its operations returns the result of its local method
returned_for(t) ==
    LET found == split_into_clauses(t, DefaultMaxLength)
    IN  [ classify_document_type |-> _local_document_classification(t),
          generate_summary |-> _local_summarization(t),
          simplify_clause |-> _local_clause_simplification(t),
          split_into_clauses |-> found,
          comprehensive |-> analyze_clauses(found, ComprehensiveLimit),
          clause_by_clause |-> analyze_clauses(found, ClauseByClauseLimit) ]

\* a fresh session; the calls are functions of the text alone, and what they
\* return is tabulated once
AppInit ==
    /\ uploaded_file = "none"
    /\ session_state = SessionDefaults
    /\ page = NothingRendered
    /\ returned = [ t \in DocumentTexts |-> returned_for(t) ]

\* the workflows: the session state they leave and what they did
comprehensive_analysis(ss) ==
    LET r == returned[ss.document_text]
    IN  [ session |->
            [ ss EXCEPT
                !.document_type = IF r.classify_document_type.success
                                  THEN r.classify_document_type.document_type ELSE @,
                !.document_summary = IF r.generate_summary.success
                                     THEN r.generate_summary.summary ELSE @,
                !.clauses = IF Len(r.split_into_clauses) > 0
                            THEN r.split_into_clauses ELSE @,
                !.clause_analysis = IF Len(r.split_into_clauses) > 0
                                    THEN r.comprehensive ELSE @,
                !.simplified_text = IF r.simplify_clause.success
                                    THEN r.simplify_clause.simplified ELSE @ ],
          segmented |-> r.split_into_clauses,
          built |-> r.comprehensive,
          limit |-> ComprehensiveLimit, download_options |-> TRUE ]

analyze_document_summarization(ss) ==
    LET result == returned[ss.document_text].generate_summary
    IN  [ session |-> [ ss EXCEPT !.document_summary =
                                      IF result.success THEN result.summary ELSE @ ],
          segmented |-> << >>, built |-> << >>, limit |-> 0, download_options |-> FALSE ]

analyze_clause_extraction(ss) ==
    LET r == returned[ss.document_text]
    IN  [ session |-> [ ss EXCEPT !.clause_analysis =
                                      IF Len(r.split_into_clauses) > 0
                                      THEN r.clause_by_clause ELSE @ ],
          segmented |-> r.split_into_clauses,
          built |-> r.clause_by_clause,
          limit |-> ClauseByClauseLimit, download_options |-> FALSE ]

analyze_document_simplification(ss) ==
    LET result == returned[ss.document_text].simplify_clause
    IN  [ session |-> [ ss EXCEPT !.simplified_text =
                                      IF result.success THEN result.simplified ELSE @ ],
          segmented |-> << >>, built |-> << >>, limit |-> 0, download_options |-> FALSE ]

\* the entities are displayed and not kept
analyze_legal_entities(ss) ==
    [ session |-> ss, segmented |-> << >>, built |-> << >>, limit |-> 0,
      download_options |-> FALSE ]

\* the dispatch on analysis_type
workflow(analysis_type, ss) ==
    CASE analysis_type = "Comprehensive Analysis" -> comprehensive_analysis(ss)
      [] analysis_type = "Document Summarization" -> analyze_document_summarization(ss)
      [] analysis_type = "Clause-by-Clause Analysis" -> analyze_clause_extraction(ss)
      [] analysis_type = "Document Simplification" -> analyze_document_simplification(ss)
      [] analysis_type = "Legal Entity Extraction" -> analyze_legal_entities(ss)

\* one run of main() with the file in the uploader, the selected analysis type and
\* whether the Analyze button was pressed
main(file, analysis_type, pressed) ==
    LET ss == after_upload(session_state, file)
    IN  IF analysis_section_shown(ss)
        THEN IF pressed
             THEN LET done == workflow(analysis_type, ss)
                  IN  /\ session_state' = done.session
                      /\ page' = [ analysis_section |-> TRUE,
                                   invoked |-> analysis_type,
                                   invoked_text |-> ss.document_text,
                                   segmented |-> done.segmented,
                                   built |-> done.built,
                                   limit |-> done.limit,
                                   download_options |-> done.download_options ]
             ELSE /\ session_state' = ss
                  /\ page' = [ NothingRendered EXCEPT !.analysis_section = TRUE ]
        ELSE /\ session_state' = ss
             /\ page' = NothingRendered

\* the user puts a file into the uploader
UploadFile ==
    \E file \in Files :
        /\ file # uploaded_file
        /\ uploaded_file' = file
        /\ main(file, "Comprehensive Analysis", FALSE)
        /\ UNCHANGED << returned, other_than_app >>
\* the user takes the file out of the uploader
RemoveFile ==
    /\ uploaded_file # "none"
    /\ uploaded_file' = "none"
    /\ main("none", "Comprehensive Analysis", FALSE)
    /\ UNCHANGED << returned, other_than_app >>
\* the user picks an analysis type in the select box of the analysis section
SelectAnalysisType ==
    /\ page.analysis_section
    /\ \E analysis_type \in AnalysisTypes : main(uploaded_file, analysis_type, FALSE)
    /\ UNCHANGED << uploaded_file, returned, other_than_app >>
\* the user presses the Analyze button of the analysis section
PressAnalyze ==
    /\ page.analysis_section
    /\ \E analysis_type \in AnalysisTypes : main(uploaded_file, analysis_type, TRUE)
    /\ UNCHANGED << uploaded_file, returned, other_than_app >>

AppNext == UploadFile \/ RemoveFile \/ SelectAnalysisType \/ PressAnalyze
AppStart == SegIdle /\ ClsIdle /\ SimpIdle /\ OpIdle /\ AppInit /\ AnaIdle /\ TaskIdle /\ IngIdle
AppSpec == AppStart /\ [][AppNext]_vars

(***************************************************************************)
(* The local analyses called on a text                                     *)
(***************************************************************************)
\* a text is a concatenation of at most MaxAnaPieces pieces
MaxAnaPieces == 3
AnaPieces ==
    { "The parties shall keep this Confidential. ",
      "Payment is due. Breach of payment terms. ",
      "TERMINATION and termination: Liability shall follow and shall stay. ",
      "No. ",
      "The tenant must agree to the governing law and any dispute goes to arbitration, subject to amendment, force majeure and indemnification. ",
      "Ok. Yes. " }
RECURSIVE AnaTextsOfLen(_)
AnaTextsOfLen(n) ==
    IF n = 0 THEN { "" }
    ELSE { t \o p : t \in AnaTextsOfLen(n - 1), p \in AnaPieces }
AnaTexts == UNION { AnaTextsOfLen(n) : n \in 0..MaxAnaPieces }

AnaInit ==
    /\ ana_text \in AnaTexts
    /\ ana_pc = "input"
    /\ ana_key_info = << >>
    /\ ana_summary = [ success |-> FALSE, summary |-> "", model_used |-> "unset" ]
    /\ ana_entities = [ success |-> FALSE,
                        entities |-> [ legal_terms |-> << >>, obligations |-> << >> ],
                        model_used |-> "unset" ]

\* extract_clause_key_info(clause) is called
ExtractClauseKeyInfo ==
    /\ ana_pc = "input"
    /\ ana_key_info' = extract_clause_key_info(ana_text)
    /\ ana_pc' = "key_info"
    /\ UNCHANGED << ana_text, ana_summary, ana_entities, other_than_ana >>

\* HuggingFaceClient._local_summarization(text) is called
LocalSummarization ==
    /\ ana_pc = "input"
    /\ ana_summary' = _local_summarization(ana_text)
    /\ ana_pc' = "summary"
    /\ UNCHANGED << ana_text, ana_key_info, ana_entities, other_than_ana >>

\* GraniteClient._enhanced_local_entity_extraction(text) is called
LocalEntityExtraction ==
    /\ ana_pc = "input"
    /\ ana_entities' = _enhanced_local_entity_extraction(ana_text)
    /\ ana_pc' = "entities"
    /\ UNCHANGED << ana_text, ana_key_info, ana_summary, other_than_ana >>

AnaNext == ExtractClauseKeyInfo \/ LocalSummarization \/ LocalEntityExtraction
AnalysisInit == SegIdle /\ ClsIdle /\ SimpIdle /\ OpIdle /\ AppIdle /\ AnaInit /\ TaskIdle /\ IngIdle
AnalysisSpec == AnalysisInit /\ [][AnaNext]_vars

(***************************************************************************)
(* Two invocations side by side on the cached client                       *)
(***************************************************************************)
\* get_ai_clients() is cached: every task calls the one HuggingFaceClient, whose
\* attributes are the api_key and what __init__ derives from it; a DocumentProcessor
\* is constructed per call of the workflow.  A method's locals live in the frame of
\* its call.
TaskOperations == { "split_into_clauses", "simplify_clause", "classify_document_advanced" }
ClientOperations == { "simplify_clause", "classify_document_advanced" }
TaskDocuments ==
    { "1. Payment is due on receipt.\n2. Either party may terminate this lease.",
      "The tenant shall pay the rent. The landlord shall repair.\nNotices are in writing.",
      "WHEREAS the parties agree;\n\nConfidential information stays secret, notwithstanding any prior agreement." }
\* what the remote service may do when a task calls it
TaskResponses ==
    { Timeout,
      Answer(500, EmptyBody),
      Answer(StatusOK, UnparseableBody),
      Answer(StatusOK, JsonList(<< >>)),
      Answer(StatusOK, JsonList(<< << << "generated_text",
                 " This is a non-disclosure agreement.\nParty: Acme Corp " >> >> >>)),
      Answer(StatusOK, JsonObject(<< << "classification", "NDA" >>, << "confidence", "0.92" >>,
                                     << "simplified_text", "Plain words." >>,
                                     << "entities", "{}" >> >>)) }

\* locals kept in an attribute of the shared instance instead of the frame
instance_attribute(t) == "A"
\* the frame the locals of task t's invocation live in: its own
frame_of(t) == t
Locals(t) == frame[frame_of(t)]

\* a step that retries the request after a failure
retry_request(op) == "request"
\* where an operation goes after a request that failed: to its local fallback
after_failed_request(op) == "local"

\* the local fallback of a client operation
local_fallback(op, doc) ==
    IF op = "simplify_clause" THEN _local_clause_simplification(doc)
    ELSE _enhanced_local_classification(doc)

TaskInit ==
    /\ invocation \in [ Tasks -> [ op : TaskOperations, doc : TaskDocuments ] ]
    /\ task_pc = [ t \in Tasks |-> "called" ]
    /\ frame = [ t \in Tasks |-> NoLocals ]
    /\ trace = [ t \in Tasks |-> << >> ]
\* the environment the client was constructed in
ClientConstructed ==
    /\ api_key \in ApiKeys
    /\ op_text = ""
    /\ op_pc = "ready"
    /\ op_called = << "none", "none" >>
    /\ op_response = NoResponse
    /\ op_result = [ raised |-> FALSE,
                     returned |-> [ success |-> FALSE, model_used |-> "unset" ] ]

\* task t's invocation takes a step: its position and its locals change, and
\* nothing of the client or of the other task's invocation does
TaskStep(t, at, to, locals, events) ==
    /\ task_pc[t] = at
    /\ task_pc' = [ task_pc EXCEPT ![t] = to ]
    /\ frame' = [ frame EXCEPT ![frame_of(t)] = locals ]
    /\ trace' = [ trace EXCEPT ![t] = @ \o events ]
    /\ UNCHANGED << invocation, other_than_task >>

\* lines = text.split('\n'); clauses = []; current_clause = ""
SplitLines(t) ==
    /\ invocation[t].op = "split_into_clauses"
    /\ TaskStep(t, "called", "scan",
                [ Locals(t) EXCEPT !.lines = Split(invocation[t].doc, "\n"), !.i = 1,
                                   !.clauses = << >>, !.current_clause = "" ],
                << >>)
\* one iteration of `for line in lines`
ScanLine(t) ==
    /\ Locals(t).i <= Len(Locals(t).lines)
    /\ LET after == scan_line(Locals(t).lines[Locals(t).i], Locals(t).clauses,
                              Locals(t).current_clause, SmallMaxLength)
       IN  TaskStep(t, "scan", "scan",
                    [ Locals(t) EXCEPT !.i = @ + 1, !.clauses = after.cl,
                                       !.current_clause = after.buffer ],
                    << >>)
\* the loop is over: the last clause is added, the short clauses are filtered out
\* and the list is returned
ReturnClauses(t) ==
    /\ Locals(t).i > Len(Locals(t).lines)
    /\ TaskStep(t, "scan", "done",
                [ Locals(t) EXCEPT !.result =
                      Returned(FilterFrom(add_last_clause(Locals(t).clauses,
                                                          Locals(t).current_clause), 1).out) ],
                << >>)

\* `if self.api_available:` reads the client
CheckAvailable(t) ==
    /\ invocation[t].op \in ClientOperations
    /\ TaskStep(t, "called", IF api_available THEN "request" ELSE "local", Locals(t), << >>)
\* requests.post(...) is issued
Post(t) ==
    TaskStep(t, "request", "awaiting", Locals(t), << "request" >>)
\* the remote service answers, or the request times out
Respond(t) ==
    \E response \in TaskResponses :
        TaskStep(t, "awaiting", "received", [ Locals(t) EXCEPT !.response = response ], << >>)
\* HuggingFaceClient.simplify_clause with the result of _make_granite_call
ReceiveSimplified(t) ==
    /\ invocation[t].op = "simplify_clause"
    /\ LET response == Locals(t).response
           result == _make_granite_call(response)
           failed == response.outcome # "response" \/ response.status # StatusOK
       IN  IF failed
           THEN TaskStep(t, "received", after_failed_request(invocation[t].op), Locals(t),
                         << "failed" >>)
           ELSE IF ~ Truthy(result)
           THEN TaskStep(t, "received", "local", Locals(t), << "unusable" >>)
           ELSE IF result.form = "object"
           THEN TaskStep(t, "received", "done",
                         [ Locals(t) EXCEPT !.result = Raised("KeyError") ], << "raise" >>)
           ELSE TaskStep(t, "received", "done",
                         [ Locals(t) EXCEPT !.result =
                               Returned([ success |-> TRUE, original |-> invocation[t].doc,
                                          simplified |-> GeneratedText(result),
                                          model_used |-> granite_model ]) ],
                         << "return" >>)
\* GraniteClient.classify_document_advanced with the response
ReceiveClassification(t) ==
    /\ invocation[t].op = "classify_document_advanced"
    /\ LET response == Locals(t).response
           failed == response.outcome # "response" \/ response.status # StatusOK
       IN  IF failed
           THEN TaskStep(t, "received", after_failed_request(invocation[t].op), Locals(t),
                         << "failed" >>)
           ELSE IF JsonRaises(response.body) \/ response.body.form # "object"
           THEN TaskStep(t, "received", "local", Locals(t), << "unusable" >>)
           ELSE TaskStep(t, "received", "done",
                         [ Locals(t) EXCEPT !.result =
                               Returned([ success |-> TRUE,
                                          classification |->
                                              Get(response.body.fields, "classification", "Unknown"),
                                          confidence |->
                                              Get(response.body.fields, "confidence", "0.0"),
                                          model_used |-> granite_remote_model ]) ],
                         << "return" >>)
\* the local fallback runs and its result is returned
Local(t) ==
    TaskStep(t, "local", "done",
             [ Locals(t) EXCEPT !.result =
                   Returned(local_fallback(invocation[t].op, invocation[t].doc)) ],
             << "local" >>)

TaskNext ==
    \E t \in Tasks :
        \/ SplitLines(t) \/ ScanLine(t) \/ ReturnClauses(t)
        \/ CheckAvailable(t) \/ Post(t) \/ Respond(t)
        \/ ReceiveSimplified(t) \/ ReceiveClassification(t) \/ Local(t)
ConcurrentInit ==
    SegIdle /\ ClsIdle /\ SimpIdle /\ ClientConstructed /\ AppIdle /\ AnaIdle /\ TaskInit /\ IngIdle
ConcurrentSpec == ConcurrentInit /\ [][TaskNext]_vars

(***************************************************************************)
(* split_into_clauses on documents made of whole lines                     *)
(***************************************************************************)
\* a document is at most MaxDocumentLines lines joined by line breaks
MaxDocumentLines == 3
DocumentLines ==
    { "1. The buyer pays the fee.",
      "2. Either party may end it.",
      "3. Notices  are in writing. ",
      "Whereas the parties agree;",
      "LAW AND VENUE OF THIS DEED",
      "and the goods are delivered",
      "" }
RECURSIVE DocumentsOfLines(_)
DocumentsOfLines(n) ==
    IF n = 1 THEN DocumentLines
    ELSE { d \o "\n" \o l : d \in DocumentsOfLines(n - 1), l \in DocumentLines }
Documents == UNION { DocumentsOfLines(n) : n \in 1..MaxDocumentLines }

LinesInit ==
    /\ text \in Documents
    /\ max_length \in MaxLengths
    /\ SegReady
    /\ ClsIdle /\ SimpIdle /\ OpIdle /\ AppIdle /\ AnaIdle /\ TaskIdle /\ IngIdle
LinesSpec == LinesInit /\ [][SegNext]_vars

(***************************************************************************)
(* DocumentProcessor.process_document                                      *)
(***************************************************************************)
\* self.supported_formats
supported_formats == << ".pdf", ".docx", ".txt", ".rtf", ".doc", ".odt" >>

\* os.path.splitext(name)[1] of a name without a directory: from the last dot on,
\* unless only dots precede it
splitext(name) ==
    LET dots == { i \in 1..Len(name) : Char(name, i) = "." }
    IN  IF dots = {} THEN ""
        ELSE LET last == CHOOSE i \in dots : \A j \in dots : j <= i
             IN  IF \E j \in 1..(last - 1) : Char(name, j) # "."
                 THEN SubSeq(name, last, Len(name))
                 ELSE ""

RECURSIVE LettersEnd(_, _)
\* the index after the run of lower-case letters that starts at i
LettersEnd(s, i) ==
    IF i <= Len(s) /\ Char(s, i) \in LowerSet THEN LettersEnd(s, i + 1) ELSE i
RECURSIVE RemoveControlWords(_, _)
\* re.sub(r'\\[a-z]+\d*', '', content) from position i on
RemoveControlWords(s, i) ==
    IF i > Len(s) THEN ""
    ELSE IF Char(s, i) = "\\" /\ LettersEnd(s, i + 1) > i + 1
         THEN RemoveControlWords(s, DigitsEnd(s, LettersEnd(s, i + 1)))
         ELSE Char(s, i) \o RemoveControlWords(s, i + 1)
\* content.replace('{', '').replace('}', '')
RemoveBraces(s) == Replace(Replace(s, "{", ""), "}", "")

\* what the file holds: for the text formats its lines, for PDF and DOCX the texts
\* of its pages or paragraphs
Decoded(file) == Join(file.parts, "\n")
PagesText(file) == Join([ k \in 1..Len(file.parts) |-> file.parts[k] \o "\n" ], "")

\* an extractor whose own handler hands the exception on
extractor_raising(file, extracted) ==
    IF file.sound THEN Returned(Strip(extracted)) ELSE Raised("invalid file")
\* every extractor: try: ... return text.strip()
\*                  except Exception as e: st.error(...); return ""
\* (the exception of a file that cannot be parsed or decoded ends in the extractor,
\* unless reporting it raises in turn)
extractor(file, extracted) ==
    IF file.sound THEN Returned(Strip(extracted))
    ELSE IF file.report_raises THEN Raised("st.error failed")
    ELSE Returned("")
extract_text_from_pdf(file) == extractor(file, PagesText(file))
extract_text_from_docx(file) == extractor(file, PagesText(file))
extract_text_from_txt(file) == extractor(file, Decoded(file))
\* decode('utf-8', errors='ignore') drops what cannot be decoded and goes on
extract_text_from_rtf(file) ==
    Returned(Strip(CollapseWhitespace(RemoveBraces(RemoveControlWords(Decoded(file), 1)))))

Failure(error) == [ success |-> FALSE, text |-> "", error |-> error ]
\* a call without the try/except around the extraction
not_handled(outcome) == outcome
\* except Exception as e: return {"success": False, "text": "", "error": ...}
handled(outcome) ==
    IF outcome.raised
    THEN Returned(Failure("Error processing document: " \o outcome.returned.error))
    ELSE outcome

\* process_document(uploaded_file), which process_uploaded_file hands on to; the
\* final else of the chain of extensions is never reached, the six supported
\* formats all have a branch
process_uploaded_file(file) ==
    IF ~ file.present THEN Returned(Failure("No file uploaded"))
    ELSE LET file_extension == Lower(splitext(file.name))
         IN  IF \A f \in 1..Len(supported_formats) : supported_formats[f] # file_extension
             THEN Returned(Failure("Unsupported file format. Supported formats: "
                                   \o Join(supported_formats, ", ")))
             ELSE handled(
                    LET outcome ==
                            IF file_extension = ".pdf" THEN extract_text_from_pdf(file)
                            ELSE IF file_extension = ".docx"
                            THEN extract_text_from_docx(file)
                            ELSE IF file_extension = ".txt"
                            THEN extract_text_from_txt(file)
                            ELSE IF file_extension = ".rtf"
                            THEN extract_text_from_rtf(file)
                            ELSE extract_text_from_txt(file)
                    IN  IF outcome.raised THEN outcome
                        ELSE IF outcome.returned = ""
                        THEN Returned(Failure("No text extracted from document"))
                        ELSE Returned([ success |-> TRUE,
                                        text |-> outcome.returned,
                                        filename |-> file.name,
                                        file_size |-> Len(outcome.returned),
                                        file_type |-> file_extension ]))

\* the files a user may hand in
FileNames ==
    { "nda.pdf", "NDA.PDF", "lease.docx", "note.txt", "letter.rtf", "old.doc", "memo.odt",
      "photo.png", "README", ".txt", "archive.tar.gz", "notes.txt.exe", "a..TXT" }
FileParts ==
    { << "  Lease between A and B.", "Signed." >>,
      << " ", "" >>,
      << >>,
      << "{\\rtf1\\ansi Lease {\\b between} A and B.}" >> }
Uploads ==
    { NoFile } \cup
    [ present : { TRUE }, name : FileNames, parts : FileParts, sound : BOOLEAN,
      report_raises : BOOLEAN ]

IngInit ==
    /\ ing_file \in Uploads
    /\ ing_pc = "ready"
    /\ ing_result = [ raised |-> FALSE, returned |-> [ success |-> FALSE, text |-> "" ] ]
\* process_document(uploaded_file) is called and returns
ProcessDocument ==
    /\ ing_pc = "ready"
    /\ ing_result' = process_uploaded_file(ing_file)
    /\ ing_pc' = "returned"
    /\ UNCHANGED << ing_file, other_than_ing >>
IngNext == ProcessDocument
IngestInit ==
    SegIdle /\ ClsIdle /\ SimpIdle /\ OpIdle /\ AppIdle /\ AnaIdle /\ TaskIdle /\ IngInit
IngestSpec == IngestInit /\ [][IngNext]_vars

(***************************************************************************)
(* Properties of split_into_clauses                                        *)
(***************************************************************************)
RECURSIVE ContentRange(_, _, _)
\* the characters lo..hi of s that are neither whitespace nor sentence terminators
ContentRange(s, lo, hi) ==
    IF lo > hi THEN ""
    ELSE IF lo = hi
         THEN (IF Char(s, lo) \in WhitespaceChars \cup Terminators THEN "" ELSE Char(s, lo))
         ELSE ContentRange(s, lo, (lo + hi) \div 2) \o ContentRange(s, (lo + hi) \div 2 + 1, hi)
Content(s) == ContentRange(s, 1, Len(s))
ConcatAll(parts) == Join(parts, "")
OnlyWhitespace(s) == \A i \in 1..Len(s) : Char(s, i) \in WhitespaceChars
NoTerminator(s) == \A i \in 1..Len(s) : Char(s, i) \notin Terminators

\* the source lines that contribute a non-blank character to closed clause k
LinesIn(k) ==
    { d \in 1..9 : \E i \in 1..Len(clauses[k]) :
                      /\ Char(clause_tags[k], i) = Char(DigitChars, d + 1)
                      /\ Char(clauses[k], i) \notin WhitespaceChars }
\* the indices of the closed clauses longer than the minimum, and their rank among them
LongClauses == { i \in 1..Len(clauses) : Len(Strip(clauses[i])) > MinClauseLength }
RankOf(i) == Cardinality({ j \in LongClauses : j <= i })

\* C1 (as claimed): every returned clause is longer than 20 characters, measured on
\* the returned, whitespace-collapsed string.
C1_ReturnedLongerThanMin ==
    pc = "done" =>
        \A i \in 1..Len(filtered_clauses) : Len(filtered_clauses[i]) > MinClauseLength

\* C2 (as claimed): the lines contributing to a returned clause all precede the lines
\* contributing to every later returned clause, and no line contributes to two clauses.
C2_NoLineInTwoClauses ==
    pc = "done" =>
        \A i, j \in 1..Len(kept) :
            i < j => \A a \in LinesIn(kept[i]), b \in LinesIn(kept[j]) : a < b

\* C2 (amended): returned clauses keep source order: a line contributing to a returned
\* clause is the same as or precedes every line contributing to a later returned
\* clause, and a line contributes to two clauses only when a mid-point split cut
\* the buffer that held it.
C2_SourceOrder ==
    pc = "done" =>
        /\ \A i \in 1..Len(kept) : filtered_clauses[i] = CollapseWhitespace(clauses[kept[i]])
        /\ \A i, j \in 1..Len(kept) :
              i < j => /\ kept[i] < kept[j]
                       /\ \A a \in LinesIn(kept[i]), b \in LinesIn(kept[j]) :
                             a <= b /\ (a = b => nsplits > 0)
C2_Witness ==
    /\ pc = "done"
    /\ nsplits > 0
    /\ \E i, j \in 1..Len(kept) :
          /\ i < j
          /\ LinesIn(kept[i]) \cap LinesIn(kept[j]) # { }

\* C3: at every point of the scan the consumed non-blank lines are covered, in order
\* and up to whitespace and sentence terminators, by the closed clauses followed by
\* the buffer; at the end every line was consumed and every closed clause longer than
\* 20 characters is returned, in order.
C3_NoContentDropped ==
    /\ pc = "scan" => Content(consumed) = Content(ConcatAll(clauses) \o current_clause)
    /\ pc = "done" =>
          /\ Content(text) = Content(consumed)
          /\ Content(consumed) = Content(ConcatAll(clauses))
          /\ Len(filtered_clauses) = Cardinality(LongClauses)
          /\ \A i \in LongClauses :
                filtered_clauses[RankOf(i)] = CollapseWhitespace(Strip(clauses[i]))
C3_Witness ==
    /\ pc = "done"
    /\ nsplits > 0
    /\ Len(clauses) > Len(filtered_clauses)
    /\ Len(filtered_clauses) > 0

C5_EmptyDocument ==
    (pc = "done" /\ OnlyWhitespace(text)) => filtered_clauses = << >>
C5_Witness ==
    /\ pc = "done"
    /\ OnlyWhitespace(text)
    /\ Len(text) > MinClauseLength
    /\ Len(lines) > 1

\* C6: when the buffer exceeds max_length and holds no sentence terminator, the
\* iteration closes the whole buffer as exactly one more clause and leaves the buffer
\* empty; every iteration consumes one line, and the scan ends after the last one.
C6_WholeBufferClosed ==
    [][ /\ ( /\ pc = "scan"
             /\ idx <= Len(lines)
             /\ CurrentLine # ""
             /\ Len(BufferAfterLine(CurrentLine)) > max_length
             /\ NoTerminator(BufferAfterLine(CurrentLine)) )
           => /\ clauses' = Append(ClausesAfterLine(CurrentLine),
                                   Strip(BufferAfterLine(CurrentLine)))
              /\ current_clause' = ""
        /\ pc = "scan"
           => \/ idx <= Len(lines) /\ idx' = idx + 1 /\ pc' = "scan"
              \/ idx = Len(lines) + 1 /\ idx' = idx /\ pc' = "done"
      ]_vars
C6_Witness ==
    /\ pc = "scan"
    /\ event = "whole"
    /\ current_clause = ""
    /\ Len(clauses[Len(clauses)]) > max_length
    /\ NoTerminator(clauses[Len(clauses)])


(***************************************************************************)
(* Properties of the classifiers                                           *)
(***************************************************************************)
ClauseTypeLabels ==
    { "Confidentiality", "Termination", "Payment", "Liability", "Breach",
      "Governing Law", "Dispute Resolution", "General" }
DocumentTypeLabels ==
    { "NDA", "Employment Contract", "Lease Agreement", "Service Agreement",
      "Purchase Agreement", "Partnership Agreement", "General Contract" }
\* the document type a returned name stands for: the Hugging Face client spells
\* the NDA type out
DocumentTypeOf(name) == IF name = "Non-Disclosure Agreement (NDA)" THEN "NDA" ELSE name

\* the ordered rule list of the clause classifier, as the specification gives it
PriorityRules ==
    << << "Confidentiality", { "confidential", "non-disclosure" } >>,
       << "Termination", { "termination", "terminate" } >>,
       << "Payment", { "payment", "pay", "fee" } >>,
       << "Liability", { "liability", "responsible" } >>,
       << "Breach", { "breach", "default" } >>,
       << "Governing Law", { "governing law", "jurisdiction" } >>,
       << "Dispute Resolution", { "dispute", "arbitration" } >> >>
RuleMatches(r, lowered) == \E w \in PriorityRules[r][2] : Contains(lowered, w)
TriggerWords == UNION { PriorityRules[r][2] : r \in 1..Len(PriorityRules) }

\* the number of a type's keywords that occur in the lower-cased text
HitCount(keywords, lowered) ==
    Cardinality({ k \in 1..Len(keywords) : Contains(lowered, keywords[k]) })
\* the hit count of every type of a client's table, in enumeration order
HitCounts(table, t) ==
    LET lowered == Lower(t)
    IN  [ k \in 1..Len(table) |-> HitCount(table[k].keywords, lowered) ]
\* the position of a returned name in a client's table of types
IndexOfName(table, name) == CHOOSE k \in 1..Len(table) : table[k].name = name

\* C7: for every string, the empty one included, each classifier returns exactly one
\* label of its enumerated set, never an absent value.
C7_ClassifierTotality ==
    /\ cls_pc = "clause" => clause_type \in ClauseTypeLabels
    /\ cls_pc = "hf" =>
          /\ hf_result.success
          /\ DocumentTypeOf(hf_result.document_type) \in DocumentTypeLabels
    /\ cls_pc = "granite" =>
          /\ granite_result.success
          /\ granite_result.classification \in DocumentTypeLabels
C7_Witness ==
    /\ cls_text = ""
    /\ cls_pc = "clause"
    /\ clause_type = "General"

\* C8: the clause classifier returns the label of the first rule, in the fixed order,
\* one of whose keywords occurs case-insensitively in the clause, and General iff no
\* rule matches; "confidential" with "termination" is Confidentiality, and a clause
\* whose only trigger-like word is "term" is General.
C8_ClassifierPriority ==
    cls_pc = "clause" =>
        LET lowered == Lower(cls_text)
        IN  /\ \A r \in 1..Len(PriorityRules) :
                  (RuleMatches(r, lowered) /\ \A q \in 1..(r - 1) : ~ RuleMatches(q, lowered))
                      => clause_type = PriorityRules[r][1]
            /\ clause_type = "General" <=> \A r \in 1..Len(PriorityRules) : ~ RuleMatches(r, lowered)
            /\ (Contains(lowered, "confidential") /\ Contains(lowered, "termination"))
                  => clause_type = "Confidentiality"
            /\ (Contains(lowered, "term") /\ \A w \in TriggerWords : ~ Contains(lowered, w))
                  => clause_type = "General"
C8_Witness ==
    /\ cls_pc = "clause"
    /\ Contains(Lower(cls_text), "termination")
    /\ Contains(Lower(cls_text), "confidential")
    /\ ~ Contains(cls_text, "confidential")
    /\ clause_type = "Confidentiality"

\* C9 (as claimed): when every candidate type scores zero, local document
\* classification returns General Contract with confidence at most 0.3.
C9_ZeroScoreIsGeneralContract ==
    /\ (cls_pc = "granite" /\ \A k \in 1..Len(doc_patterns) : HitCounts(doc_patterns, cls_text)[k] = 0)
          => /\ granite_result.classification = "General Contract"
             /\ RatLeq(granite_result.confidence, << 3, 10 >>)
    /\ (cls_pc = "hf" /\ \A k \in 1..Len(doc_types) : HitCounts(doc_types, cls_text)[k] = 0)
          => /\ hf_result.document_type = "General Contract"
             /\ RatLeq(hf_result.confidence, << 3, 10 >>)

\* the type at position best has the maximal count, and no earlier type reaches it
IsFirstMaximal(counts, best) ==
    \A k \in 1..Len(counts) :
        /\ counts[k] <= counts[best]
        /\ k < best => counts[k] < counts[best]

\* C10: local document classification returns the type whose keyword-hit count is
\* maximal; among several maximal types, the earliest in enumeration order.
C10_MaxScoreFirstWins ==
    /\ cls_pc = "granite" =>
          IsFirstMaximal(HitCounts(doc_patterns, cls_text),
                         IndexOfName(doc_patterns, granite_result.classification))
    /\ cls_pc = "hf" =>
          IsFirstMaximal(HitCounts(doc_types, cls_text),
                         IndexOfName(doc_types, hf_result.document_type))
C10_Witness ==
    /\ cls_pc = "granite"
    /\ LET best == IndexOfName(doc_patterns, granite_result.classification)
           counts == HitCounts(doc_patterns, cls_text)
       IN  /\ best > 1
           /\ counts[1] > 0
           /\ \E k \in (best + 1)..Len(doc_patterns) : counts[k] = counts[best]

\* two fractions denote the same number
RatEq(a, b) == RatLeq(a, b) /\ RatLeq(b, a)
\* a fraction lies in [0,1]
InUnitInterval(a) == RatLeq(<< 0, 1 >>, a) /\ RatLeq(a, << 1, 1 >>)
\* the winning raw score of a client's table on a text
WinningScore(table, t) ==
    LET counts == HitCounts(table, t)
    IN  counts[CHOOSE k \in 1..Len(counts) : \A j \in 1..Len(counts) : counts[j] <= counts[k]]
\* the score from which score / normalization reaches 1
GraniteNormalization == 3
HFNormalization == 5

\* C11 (as claimed): the confidence of local document classification lies in [0,1],
\* does not decrease as the winning raw score grows, and is exactly 1.0 once the
\* winning score reaches the client's normalization constant (3 in the Granite
\* client, 5 in the Hugging Face client).
C11_ConfidenceSaturatesAtOne ==
    /\ cls_pc = "granite" =>
          LET score == WinningScore(doc_patterns, cls_text)
          IN  /\ InUnitInterval(granite_result.confidence)
              /\ \A lower \in 0..score :
                    RatLeq(granite_confidence(lower), granite_result.confidence)
              /\ score >= GraniteNormalization => RatEq(granite_result.confidence, << 1, 1 >>)
    /\ cls_pc = "hf" =>
          LET score == WinningScore(doc_types, cls_text)
          IN  /\ InUnitInterval(hf_result.confidence)
              /\ \A lower \in 0..score :
                    RatLeq(hf_confidence(lower), hf_result.confidence)
              /\ score >= HFNormalization => RatEq(hf_result.confidence, << 1, 1 >>)

(***************************************************************************)
(* Properties of local simplification                                      *)
(***************************************************************************)
\* no phrase of a substitution table occurs in s, in any casing
NoMappedPhrase(s, table) ==
    LET lowered == Lower(s)
    IN  \A k \in 1..Len(table) : ~ Contains(lowered, table[k][1])
SpecExample == "The parties shall act notwithstanding any prior agreement. "

\* C12 (as claimed): lexical substitution is case-insensitive: whatever the casing in
\* which a phrase of the client's table occurs in the input, the occurrence is
\* replaced, so the output holds no mapped phrase in any casing; the example sentence
\* yields an output with "despite" and without "notwithstanding".
C12_CaseInsensitiveSubstitution ==
    /\ simp_pc = "hf" =>
          /\ NoMappedPhrase(hf_simplified.simplified, replacements)
          /\ simp_text = SpecExample =>
                /\ Contains(hf_simplified.simplified, "despite")
                /\ ~ Contains(hf_simplified.simplified, "notwithstanding")
    /\ simp_pc = "granite" =>
          /\ NoMappedPhrase(granite_simplified.simplified, legal_replacements)
          /\ simp_text = SpecExample =>
                /\ Contains(granite_simplified.simplified, "despite")
                /\ ~ Contains(granite_simplified.simplified, "notwithstanding")

\* the pairs << longer, shorter >> of entries of a table of which the longer phrase
\* contains the shorter one
ShadowPairs(table) ==
    { ls \in (1..Len(table)) \X (1..Len(table)) :
        /\ ls[1] # ls[2]
        /\ Contains(table[ls[1]][1], table[ls[2]][1]) }

\* C13 (as claimed): a mapped phrase that contains another mapped phrase is never
\* shadowed by it: an occurrence of the longer phrase in the input is replaced by the
\* longer phrase's own plain-language equivalent.
C13_LongerPhraseFirst ==
    /\ simp_pc = "granite" =>
          \A ls \in ShadowPairs(legal_replacements) :
              Contains(simp_text, legal_replacements[ls[1]][1])
                  => Contains(granite_simplified.simplified, legal_replacements[ls[1]][2])
    /\ simp_pc = "watson" =>
          \A ls \in ShadowPairs(legal_terms) :
              Contains(simp_text, legal_terms[ls[1]][1])
                  => Contains(watson_simplified, legal_terms[ls[1]][2])

\* C14 (as claimed): the text local simplification returns is non-empty if and only
\* if the input is non-empty (the call returns a result, it raises nothing).
C14_NonEmptyIffInputNonEmpty ==
    /\ simp_pc = "hf" =>
          /\ hf_simplified.success
          /\ hf_simplified.simplified # "" <=> simp_text # ""
    /\ simp_pc = "granite" =>
          /\ granite_simplified.success
          /\ granite_simplified.simplified # "" <=> simp_text # ""

\* C15 (as claimed): on a text with none of the mapped phrases, local clause
\* simplification returns the sentences of the input rejoined with ". " and nothing
\* else: no other character or word is inserted or deleted.
C15_NonExpansionOnJargonFree ==
    /\ (simp_pc = "hf" /\ NoMappedPhrase(simp_text, replacements)) =>
          hf_simplified.simplified = Join(SplitOn(simp_text, ". "), ". ")
    /\ (simp_pc = "granite" /\ NoMappedPhrase(simp_text, legal_replacements)) =>
          granite_simplified.simplified = Join(Split(simp_text, "."), ". ")

(***************************************************************************)
(* Properties of the remote call with local fallback                       *)
(***************************************************************************)
\* model_used of the local method behind each operation
LocalMethod ==
    [ c \in { "huggingface", "granite" } |->
        [ o \in { "classify", "simplify", "extract", "summarize" } |->
            IF c = "huggingface"
            THEN CASE o = "classify" -> "Local Keyword Matching"
                   [] o = "simplify" -> "Local Rule-based Simplification"
                   [] o = "extract" -> "Local Regex Extraction"
                   [] o = "summarize" -> "Local Extractive Summarization"
            ELSE CASE o = "classify" -> "enhanced-local-classification"
                   [] o = "simplify" -> "enhanced-local-simplification"
                   [] o = "extract" -> "enhanced-local-extraction"
                   [] o = "summarize" -> "none" ] ]
\* the operation returned, with success, the result of its local method
ReturnedLocalResult ==
    /\ ~ op_result.raised
    /\ op_result.returned.success
    /\ op_result.returned.model_used = LocalMethod[op_called[1]][op_called[2]]
\* the remote service failed: no key, host unreachable, timeout, a status other
\* than 200, or an empty body
RemoteFailure ==
    \/ api_key = ""
    \/ op_response.outcome \in { "unreachable", "timeout" }
    \/ op_response.outcome = "response" /\ op_response.status # StatusOK
    \/ op_response.outcome = "response" /\ op_response.body.form = "empty"

\* C16: whatever way the remote service fails (missing API key, unreachable host,
\* timeout, non-200 status, empty body), each of the classify, simplify, extract and
\* summarize operations of the two clients raises nothing and returns a result with
\* success = True whose model_used names the local method.
C16_FallbackGuarantee ==
    (op_pc = "returned" /\ RemoteFailure) => ReturnedLocalResult
C16_Witness ==
    /\ op_pc = "returned"
    /\ api_key # ""
    /\ op_response.outcome = "response"
    /\ op_response.status = 503
    /\ Truthy(op_response.body)
    /\ op_called = << "huggingface", "summarize" >>
    /\ ReturnedLocalResult

\* the remote service answered 200 with an empty or malformed body: one that does
\* not parse, an object where a list is expected, a list element without (or with
\* an empty) "generated_text", an object without the expected result field
ResultField ==
    [ o \in { "classify", "simplify", "extract", "summarize" } |->
        CASE o = "classify" -> "classification"
          [] o = "simplify" -> "simplified_text"
          [] o = "extract" -> "entities"
          [] o = "summarize" -> "summary" ]
MalformedBody ==
    /\ op_response.outcome = "response"
    /\ op_response.status = StatusOK
    /\ LET body == op_response.body
       IN  \/ body.form \in { "empty", "unparseable", "null" }
           \/ op_called[1] = "huggingface" /\
                 \/ body.form = "object"
                 \/ body.form = "list" /\ Len(body.items) = 0
                 \/ body.form = "list" /\ Len(body.items) > 0
                                       /\ Get(body.items[1], "generated_text", "") = ""
           \/ op_called[1] = "granite" /\
                 \/ body.form = "list"
                 \/ body.form = "object"
                       /\ \A k \in 1..Len(body.fields) : body.fields[k][1] # ResultField[op_called[2]]

\* C17 (as claimed): a 200 response with an empty or malformed body is handled like
\* an unavailable service: the operation raises nothing and returns the result of
\* its local method with success = True.
C17_MalformedBodyFallsBack ==
    (op_pc = "returned" /\ api_key # "" /\ MalformedBody) => ReturnedLocalResult

(***************************************************************************)
(* Properties of the application                                           *)
(***************************************************************************)
\* C18: across any sequence of uploads (successful or failed) and button presses,
\* an analysis workflow (comprehensive, summarization, clause-by-clause,
\* simplification, entity extraction) is invoked only when
\* session_state.document_text is non-empty.
C18_AnalysisOnlyWithDocument ==
    page.invoked \in AnalysisTypes =>
        /\ page.invoked_text # ""
        /\ session_state.document_text # ""
\* a workflow runs while the file in the uploader is one whose processing failed
C18_Witness ==
    /\ page.invoked = "Legal Entity Extraction"
    /\ uploaded_file = "scan.pdf"
    /\ ~ process_document(uploaded_file).success
    /\ session_state.document_text # ""

\* a field holds its default or what the workflows compute for the text t
FromTextOrDefault(ss, t) ==
    /\ ss.document_type \in { SessionDefaults.document_type,
                              returned[t].classify_document_type.document_type }
    /\ ss.document_summary \in { SessionDefaults.document_summary,
                                 returned[t].generate_summary.summary }
    /\ ss.simplified_text \in { SessionDefaults.simplified_text,
                                returned[t].simplify_clause.simplified }
    /\ ss.clauses \in { SessionDefaults.clauses, returned[t].split_into_clauses }
    /\ ss.clause_analysis \in { SessionDefaults.clause_analysis,
                                returned[t].comprehensive,
                                returned[t].clause_by_clause }

\* C19 (as claimed): whenever download options are rendered, each report field of
\* the session state (document_type, document_summary, simplified_text, clauses,
\* clause_analysis) is either populated from the current document_text or at its
\* empty default; none holds a value computed from an earlier document.
C19_ReportFromCurrentDocument ==
    page.download_options => FromTextOrDefault(session_state, session_state.document_text)

\* C20: clause analysis processes exactly the first min(n, limit) clauses the
\* segmenter returned (limit 20 in comprehensive analysis, 15 in clause-by-clause
\* analysis), in document order; record k has clause_number k and holds the k-th
\* clause as its original.
C20_FirstClausesNumberedInOrder ==
    page.invoked \in { "Comprehensive Analysis", "Clause-by-Clause Analysis" } =>
        LET n == Len(page.segmented)
            limit == IF page.invoked = "Comprehensive Analysis" THEN 20 ELSE 15
            m == IF n < limit THEN n ELSE limit
        IN  /\ page.segmented = split_into_clauses(page.invoked_text, DefaultMaxLength)
            /\ page.limit = limit
            /\ Len(page.built) = m
            /\ \A k \in 1..m : /\ page.built[k].clause_number = k
                               /\ page.built[k].original = page.segmented[k]
            /\ n > 0 => session_state.clause_analysis = page.built
\* the comprehensive analysis of a document with more clauses than its limit
C20_Witness ==
    /\ page.invoked = "Comprehensive Analysis"
    /\ Len(page.segmented) > ComprehensiveLimit
    /\ Len(page.built) = ComprehensiveLimit
    /\ page.built[ComprehensiveLimit].original = page.segmented[ComprehensiveLimit]

(***************************************************************************)
(* Properties of the local analyses                                        *)
(***************************************************************************)
\* the indices of the terms of a table that occur in lowered, in increasing order
MatchingTerms(terms, lowered) ==
    Sorted({ k \in 1..Len(terms) : Contains(lowered, terms[k]) })
\* the first elements of a table of pairs
Firsts(table) == [ k \in 1..Len(table) |-> table[k][1] ]

\* C21: extract_clause_key_info always returns a non-empty list; it holds one
\* explanation per term of the table that is a case-insensitive substring of the
\* clause, in table order, and it is ["Standard legal clause"] if and only if no
\* term matches.
C21_KeyInfoPerMatchingTerm ==
    ana_pc = "key_info" =>
        LET matching == MatchingTerms(Firsts(key_info_terms), Lower(ana_text))
        IN  /\ Len(ana_key_info) > 0
            /\ Len(matching) > 0 =>
                  ana_key_info = [ k \in 1..Len(matching) |-> key_info_terms[matching[k]][2] ]
            /\ (ana_key_info = << "Standard legal clause" >>) <=> (Len(matching) = 0)
\* a clause with several terms, one of them in capitals
C21_Witness ==
    /\ ana_pc = "key_info"
    /\ Contains(ana_text, "TERMINATION")
    /\ Contains(ana_text, "Confidential")
    /\ Len(ana_key_info) >= 3

\* the selections of at most 5 of the sentences none of which scores less than a
\* sentence left out: sequences of distinct indices into sentences
TopSelections(sentences) ==
    LET n == Len(sentences)
        m == IF n < 5 THEN n ELSE 5
        scores == [ i \in 1..n |-> sentence_score(sentences[i]) ]
        \* a selected sentence has fewer than m sentences scoring more than it
        candidates == { i \in 1..n : Cardinality({ j \in 1..n : scores[j] > scores[i] }) < m }
    IN  { sel \in [ 1..m -> candidates ] :
            /\ \A a, b \in 1..m : a # b => sel[a] # sel[b]
            /\ \A a \in 1..m : \A j \in 1..n :
                  (\A b \in 1..m : sel[b] # j) => scores[sel[a]] >= scores[j] }
\* the sentences of a selection, in its order
Selected(sentences, sel) == [ k \in 1..Len(sel) |-> sentences[sel[k]] ]

\* C22 (as claimed): local summarization selects at most 5 sentences, none of which
\* scores less than a sentence it leaves out (2 per keyword present, plus 1 for a
\* length between 20 and 100), and the summary is the selected sentences joined
\* with ". ".
C22_SummaryIsJoinedTopSentences ==
    ana_pc = "summary" =>
        LET sentences == Split(ana_text, ".")
        IN  \E sel \in TopSelections(sentences) :
                ana_summary.summary = Join(Selected(sentences, sel), ". ")

\* C22 (amended): local summarization selects at most 5 of the pieces text.split('.')
\* gives, none of which scores less than a piece it leaves out, and the summary is
\* the selected pieces joined with ". " and followed by a final ".".
C22_SummaryIsTopSentencesWithPeriod ==
    ana_pc = "summary" =>
        LET sentences == Split(ana_text, ".")
        IN  \E sel \in TopSelections(sentences) :
                ana_summary.summary = Join(Selected(sentences, sel), ". ") \o "."
\* a text of more than 5 sentences whose best-scoring ones are not its first ones
C22_Witness ==
    /\ ana_pc = "summary"
    /\ Len(Split(ana_text, ".")) > 5
    /\ StartsWith(ana_text, "Ok. Yes. Payment is due. ")
    /\ StartsWith(ana_summary.summary, " Breach of payment terms.  Breach of payment terms. Ok")

\* the entries of the list es are of the given type, name terms of the vocabulary that
\* occur in lowered, and no two of them name the same term
OnePerTermFound(es, vocabulary, lowered, type) ==
    /\ \A i \in 1..Len(es) :
          /\ es[i].type = type
          /\ \E k \in 1..Len(vocabulary) : vocabulary[k] = es[i].text
          /\ Occurrences(lowered, es[i].text) # {}
    /\ \A i, j \in 1..Len(es) : es[i].text = es[j].text => i = j

\* C23: local entity extraction emits at most one LegalTerm entity per distinct
\* vocabulary term and at most one Obligation entity per distinct indicator, however
\* often the term or indicator occurs, and emits one only if the term occurs in the
\* text compared without regard to case
C23_OneEntityPerTermFound ==
    ana_pc = "entities" =>
        /\ OnePerTermFound(ana_entities.entities.legal_terms, entity_legal_terms,
                           Lower(ana_text), "LegalTerm")
        /\ OnePerTermFound(ana_entities.entities.obligations, obligation_indicators,
                           Lower(ana_text), "Obligation")
\* a text in which a term occurs twice in different case and an indicator occurs
\* twice, each reported once
C23_Witness ==
    /\ ana_pc = "entities"
    /\ Contains(ana_text, "TERMINATION and termination")
    /\ Cardinality(Occurrences(Lower(ana_text), "termination")) >= 2
    /\ Cardinality(Occurrences(Lower(ana_text), "shall")) >= 2
    /\ \E i \in 1..Len(ana_entities.entities.legal_terms) :
          ana_entities.entities.legal_terms[i].text = "termination"
    /\ \E i \in 1..Len(ana_entities.entities.obligations) :
          ana_entities.entities.obligations[i].text = "shall"

(***************************************************************************)
(* Properties of concurrent invocations                                    *)
(***************************************************************************)
\* what task t's operation returns when it runs alone on its document, the remote
\* service doing what it did
Alone(t) ==
    LET op == invocation[t].op
        doc == invocation[t].doc
    IN  IF op = "split_into_clauses" THEN Returned(split_into_clauses(doc, SmallMaxLength))
        ELSE IF op = "simplify_clause" THEN simplify_clause(doc, frame[t].response)
        ELSE classify_document_advanced(doc, frame[t].response)

\* C24: whatever the interleaving of the two tasks' steps on the cached client, the
\* result a task's operation returns for its document is the result of running the
\* operation alone
C24_ResultAsIfAlone ==
    \A t \in Tasks : task_pc[t] = "done" => Locals(t).result = Alone(t)
\* no step writes the client's attributes after construction
ClientNeverWritten == [][api_key' = api_key]_vars
\* task A returned the clauses of its document after task B, on another document,
\* had started scanning and before B finished
C24_Witness ==
    /\ invocation["A"].op = "split_into_clauses"
    /\ invocation["B"].op = "split_into_clauses"
    /\ invocation["A"].doc # invocation["B"].doc
    /\ task_pc["A"] = "done"
    /\ task_pc["B"] = "scan"
    /\ frame["B"].i = 2
    /\ Len(frame["A"].result.returned) = 2

(***************************************************************************)
(* Properties of the scan of split_into_clauses                            *)
(***************************************************************************)
\* the line starts with a section marker, matches a numbered or lettered pattern,
\* or is a short upper-case line
IsBoundaryLine(line) ==
    \/ \E m \in 1..Len(clause_markers) : StartsWith(Upper(line), clause_markers[m])
    \/ is_numbered_start(line)
    \/ Len(line) < HeadingLength /\ IsUpper(line)
\* the trimmed non-blank lines of t, in order
NonBlankLines(t) ==
    LET stripped == [ k \in 1..Len(Split(t, "\n")) |-> Strip(Split(t, "\n")[k]) ]
    IN  SelectSeq(stripped, LAMBDA l : l # "")
\* the list l starts with the list p
HasPrefix(l, p) == Len(p) <= Len(l) /\ SubSeq(l, 1, Len(p)) = p

\* the boundary rule on the step that handles a non-blank line: the closed clauses
\* and the buffer as the if/else leaves them; the length check that follows works on
\* that buffer and leaves both alone when the buffer is not longer than max_length
BoundaryRule ==
    (pc = "scan" /\ idx <= Len(lines) /\ Strip(lines[idx]) # "") =>
        LET line == Strip(lines[idx])
            closes == IsBoundaryLine(line) /\ current_clause # ""
            closed == IF closes THEN Append(clauses, Strip(current_clause)) ELSE clauses
            buffer == IF closes THEN line
                      ELSE IF current_clause # "" THEN current_clause \o " " \o line
                      ELSE line
        IN  /\ HasPrefix(clauses', closed)
            /\ Len(buffer) <= max_length => clauses' = closed /\ current_clause' = buffer
\* a document of n boundary lines, each longer than 20 and at most max_length
\* characters, gives n clauses, one per line, in order
OneClausePerBoundaryLine ==
    (pc = "scan" /\ pc' = "done") =>
        LET ls == NonBlankLines(text)
        IN  (\A k \in 1..Len(ls) :
                 /\ IsBoundaryLine(ls[k])
                 /\ Len(ls[k]) > MinClauseLength
                 /\ Len(ls[k]) <= max_length)
            => filtered_clauses' = [ k \in 1..Len(ls) |-> CollapseWhitespace(ls[k]) ]

\* C25: during the scan a non-blank boundary line (section marker, numbered or
\* lettered pattern, or short upper-case line) closes the buffer as a clause iff the
\* buffer is non-empty and becomes the new buffer, any other line is space-appended;
\* and a document of n boundary lines, each longer than 20 and at most max_length
\* characters, is returned as exactly n clauses, one per line, in order
C25_BoundaryRule == [][BoundaryRule /\ OneClausePerBoundaryLine]_vars
\* three numbered clauses were returned as three clauses
C25_Witness ==
    /\ pc = "done"
    /\ text = "1. The buyer pays the fee.\n2. Either party may end it.\n3. Notices  are in writing. "
    /\ Len(filtered_clauses) = 3
    /\ filtered_clauses[3] = "3. Notices are in writing."

\* the closed clauses and the buffer the if/else of a non-blank line leaves to the
\* length check
BeforeLengthCheck ==
    LET line == Strip(lines[idx])
        closes == IsBoundaryLine(line) /\ current_clause # ""
    IN  [ clauses |-> IF closes THEN Append(clauses, Strip(current_clause)) ELSE clauses,
          buffer  |-> IF closes THEN line
                      ELSE IF current_clause # "" THEN current_clause \o " " \o line
                      ELSE line ]
\* the sentences k with lo <= k <= hi of the list, joined with ". "
SentencesJoined(sentences, lo, hi) ==
    Join([ k \in 1..(hi - lo + 1) |-> sentences[lo + k - 1] ], ". ")

\* C26: when the buffer exceeds max_length after a line was taken in and splitting
\* it on runs of . ! ? yields at least 2 sentences, the sentences before the midpoint
\* floor(count/2) are closed as one clause and the buffer becomes the sentences from
\* the midpoint on; when it yields one, the whole buffer is closed as one clause and
\* the buffer is emptied; a line causes at most one length-based close
C26_MidPointSplit ==
    [][ (pc = "scan" /\ idx <= Len(lines) /\ Strip(lines[idx]) # "") =>
          LET before == BeforeLengthCheck
              sentences == ReSplit(before.buffer)
              count == Len(sentences)
          IN  /\ Len(clauses') <= Len(before.clauses) + 1
              /\ Len(before.buffer) > max_length =>
                    IF count >= 2
                    THEN /\ clauses' = Append(before.clauses,
                               Strip(SentencesJoined(sentences, 1, count \div 2) \o "."))
                         /\ current_clause' =
                               SentencesJoined(sentences, count \div 2 + 1, count)
                    ELSE /\ clauses' = Append(before.clauses, Strip(before.buffer))
                         /\ current_clause' = ""
              /\ Len(before.buffer) <= max_length =>
                    clauses' = before.clauses /\ current_clause' = before.buffer
      ]_vars
\* a line made the buffer too long, its first sentences were closed as a clause, and
\* what stays in the buffer is still longer than max_length
C26_Witness ==
    /\ pc = "scan"
    /\ event = "mid"
    /\ Len(clauses) >= 1
    /\ Len(current_clause) > max_length

\* s holds a sentence boundary inside: a terminator with text after it
HasInteriorBoundary(s) ==
    \E i \in 1..Len(s) :
        /\ Char(s, i) \in Terminators
        /\ \E j \in (i + 1)..Len(s) : Char(s, j) \notin (Terminators \cup WhitespaceChars)

\* C27 (as claimed): a returned clause is longer than max_length only if it could not
\* be split at a sentence boundary: every returned clause that holds an interior
\* sentence boundary is at most max_length characters long
C27_LongOnlyWithoutBoundary ==
    pc = "done" =>
        \A k \in 1..Len(filtered_clauses) :
            HasInteriorBoundary(filtered_clauses[k]) => Len(filtered_clauses[k]) <= max_length

(***************************************************************************)
(* Properties of the sentence decomposition                                *)
(***************************************************************************)
\* the parts of one sentence: itself when it is at most 100 characters long or holds
\* no connector, its pieces around the first connector of the list that occurs in it
\* otherwise
DecomposedSentence(sentence) ==
    LET occurring == { c \in 1..Len(connectors) : Occurrences(sentence, connectors[c]) # {} }
    IN  IF Len(sentence) <= LongSentence \/ occurring = {} THEN << sentence >>
        ELSE SplitOn(sentence, connectors[CHOOSE c \in occurring : \A d \in occurring : c <= d])
\* the sentences decomposed one by one and rejoined with ". " in their order
Decomposed(sentences) ==
    Join(Concat([ k \in 1..Len(sentences) |-> DecomposedSentence(sentences[k]) ]), ". ")

\* C28 (as claimed): both local simplifications leave a sentence of at most 100
\* characters whole, split a longer one at the first connector of the list " and ",
\* " or ", " but ", " however ", " furthermore ", " moreover ", " additionally " that
\* occurs in it, each part a sentence of its own, leave it whole when it holds none,
\* and rejoin all sentences with ". " in their order
C28_SentenceDecomposition ==
    /\ simp_pc = "hf" =>
          hf_simplified.simplified =
              Decomposed(SplitOn(hf_substitute(simp_text, 1), ". "))
    /\ simp_pc = "granite" =>
          granite_simplified.simplified =
              with_summary(with_explanations(Decomposed(Split(
                  ReplaceTerms(simp_text, legal_replacements, legal_replacements_title, 1),
                  "."))))
\* the same of the Granite client alone
GraniteSentenceDecomposition ==
    simp_pc = "granite" =>
        granite_simplified.simplified =
            with_summary(with_explanations(Decomposed(Split(
                ReplaceTerms(simp_text, legal_replacements, legal_replacements_title, 1),
                "."))))

(***************************************************************************)
(* Properties of the remote requests of an invocation                      *)
(***************************************************************************)
\* the positions of event e in the history of task t's invocation
EventsOf(t, e) == { k \in 1..Len(trace[t]) : trace[t][k] = e }

\* C29: a client operation issues at most one remote request per invocation, and
\* none without an API key; after a request that failed the only next step is the
\* local fallback; no request is issued once the local path has started
C29_NoRetry ==
    \A t \in Tasks :
        /\ Cardinality(EventsOf(t, "request")) <= 1
        /\ ~ api_available => EventsOf(t, "request") = {}
        /\ \A k \in EventsOf(t, "failed") :
              IF k = Len(trace[t]) THEN task_pc[t] = "local" ELSE trace[t][k + 1] = "local"
        /\ \A k \in EventsOf(t, "local") : \A j \in EventsOf(t, "request") : j < k
        /\ task_pc[t] = "local" => \A k \in 1..Len(trace[t]) : trace[t][k] # "local"
\* an invocation issued one request, the request failed, and the local fallback
\* returned the result
C29_Witness ==
    /\ api_available
    /\ invocation["A"].op = "simplify_clause"
    /\ task_pc["A"] = "done"
    /\ trace["A"] = << "request", "failed", "local" >>
    /\ frame["A"].response.status = 500
    /\ frame["A"].result.returned.model_used = "Local Rule-based Simplification"

(***************************************************************************)
(* Properties of process_document                                          *)
(***************************************************************************)
\* the name ends, whatever the case, in one of the six supported extensions, and
\* more than dots precede the extension
HasSupportedExtension(name) ==
    \E e \in { ".pdf", ".docx", ".txt", ".rtf", ".doc", ".odt" } :
        /\ Len(name) > Len(e)
        /\ Lower(SubSeq(name, Len(name) - Len(e) + 1, Len(name))) = e
        /\ \E j \in 1..(Len(name) - Len(e)) : Char(name, j) # "."
\* the name ends in .rtf, whatever the case
IsRtf(name) == Len(name) > 4 /\ Lower(SubSeq(name, Len(name) - 3, Len(name))) = ".rtf"
\* every part of the file is blank
HoldsNoText(file) == \A k \in 1..Len(file.parts) : OnlyWhitespace(file.parts[k])

\* C30: process_document always returns a record and never raises; success implies
\* a non-empty text and filename and file_type set; without a file, with an
\* unsupported extension, with an extractor that yields no text and with an exception
\* of the extraction it returns success False, text "" and a non-empty error, and it
\* checks for the missing file first, for the format second, and extracts last
C30_AlwaysARecord ==
    ing_pc = "returned" =>
        /\ ~ ing_result.raised
        /\ LET r == ing_result.returned
               keys == DOMAIN r
           IN  /\ { "success", "text" } \subseteq keys
               /\ r.success =>
                     /\ r.text # ""
                     /\ { "filename", "file_type" } \subseteq keys
                     /\ r.filename = ing_file.name /\ r.filename # ""
                     /\ r.file_type # ""
               /\ ~ r.success => r.text = "" /\ "error" \in keys /\ r.error # ""
               /\ ~ ing_file.present => ~ r.success /\ r.error = "No file uploaded"
               /\ (ing_file.present /\ ~ HasSupportedExtension(ing_file.name)) =>
                     ~ r.success /\ StartsWith(r.error, "Unsupported file format")
               /\ (ing_file.present /\ HasSupportedExtension(ing_file.name)) =>
                     /\ HoldsNoText(ing_file) =>
                           /\ ~ r.success
                           /\ ~ StartsWith(r.error, "Unsupported file format")
                     /\ (~ ing_file.sound /\ ~ IsRtf(ing_file.name)) =>
                           /\ ~ r.success
                           /\ \/ r.error = "No text extracted from document"
                              \/ StartsWith(r.error, "Error processing document: ")
\* a file of a supported format could not be parsed, reporting that failed as well,
\* and process_document returned the failure record of its exception handler
C30_Witness ==
    /\ ing_pc = "returned"
    /\ ing_file.name = "NDA.PDF"
    /\ ~ ing_file.sound
    /\ ing_file.report_raises
    /\ ~ ing_result.raised
    /\ ing_result.returned = Failure("Error processing document: st.error failed")
\* a file with an upper-case extension was processed
IngestSucceeded ==
    /\ ing_pc = "returned"
    /\ ing_file.name = "a..TXT"
    /\ ing_result.returned.success
    /\ ing_result.returned.text = "Lease between A and B.\nSigned."
    /\ ing_result.returned.file_type = ".txt"

=============================================================================
